---- MODULE Spec2Model ----
(***************************************************************************)
(* Unified AI service layer of Task Master Lite                            *)
(* (scripts/modules/ai-services-unified.js): the three service facades,    *)
(* the unified service runner, the retry executor and the telemetry        *)
(* recorder, modelled as a state machine over a sequence of service calls. *)
(*                                                                         *)
(* Conventions                                                             *)
(*   - a JavaScript object is a function from property names to values;    *)
(*     a property that is absent is simply not in the DOMAIN;              *)
(*   - a message text is a sequence of words, so that toLowerCase() and    *)
(*     includes() are computed and not assumed;                            *)
(*   - an optional object-valued field is a sequence of length 0 or 1;     *)
(*   - temperatures are in tenths, prices in hundredths of a USD per       *)
(*     million tokens and total costs in hundred-millionths of a USD.      *)
(***************************************************************************)
EXTENDS Integers, Sequences, FiniteSets, TLC

\* env       the project configuration, secrets and user id the calls read
\* call      the service call in progress
\* callCount the number of calls begun
\* usageLog  the usage records produced so far, each by the id of its call
\* outcomes  the outcome ("ok" or "error") of each call that has ended
\* probe     one application of a helper function: its name, argument and result
\* calls     the service calls in flight at the same time, by slot
\* project   the configuration file of the project and the accesses made to it
\* tasksFile the tasks file of the project: absent, or its content
\* silentMode the process-wide flag that silences console logging
VARIABLES env, call, callCount, usageLog, outcomes, probe, calls, project, tasksFile,
          silentMode

vars ==
    <<env, call, callCount, usageLog, outcomes, probe, calls, project, tasksFile,
      silentMode>>

----------------------------------------------------------------------------
(* Bounds of the model *)

\* number of service calls made one after the other
MaxCalls == 2

\* number of service calls in flight at the same time
MaxInFlight == 2

\* number of model configuration operations made one after the other
MaxModelOps == 2

\* number of modelsDirect calls begun
MaxDirectCalls == 2

----------------------------------------------------------------------------
(* JavaScript values *)

Undefined == "undefined"

NoStatus == 0

EmptyObject == [k \in {} |-> Undefined]

Truthy_definedOnly(v) == v # Undefined

\* if (v) for a string-valued v
Truthy(v) == v \notin {Undefined, ""}

Get(obj, key) == IF key \in DOMAIN obj THEN obj[key] ELSE Undefined

\* { ...a, ...b }
Spread(a, b) ==
    [k \in (DOMAIN a) \cup (DOMAIN b) |-> IF k \in DOMAIN b THEN b[k] ELSE a[k]]

\* const { k1, k2, ...rest } = obj
Rest(obj, keys) == [k \in (DOMAIN obj) \ keys |-> obj[k]]

\* String.prototype.toLowerCase, word by word
LowerWord(w) ==
    CASE w = "Rate" -> "rate"
      [] w = "Limit" -> "limit"
      [] w = "Overloaded" -> "overloaded"
      [] w = "Timeout" -> "timeout"
      [] w = "Network" -> "network"
      [] w = "Error" -> "error"
      [] w = "Service" -> "service"
      [] w = "Tools" -> "tools"
      [] w = "OpenAI" -> "openai"
      [] w = "Ollama" -> "ollama"
      [] w = "Main" -> "main"
      [] w = "Bad" -> "bad"
      [] w = "Internal" -> "internal"
      [] w = "Too" -> "too"
      [] OTHER -> w

toLowerCase(words) == [i \in 1..Len(words) |-> LowerWord(words[i])]

\* String.prototype.includes on word sequences
includes(words, phrase) ==
    \E i \in 0..(Len(words) - Len(phrase)) :
        \A j \in 1..Len(phrase) : words[i + j] = phrase[j]

\* Math.pow(2, n)
Pow2(n) == IF n <= 0 THEN 1 ELSE IF n = 1 THEN 2 ELSE IF n = 2 THEN 4 ELSE 8

\* new Error(message); origin 0 marks an error object created by this module,
\* origin k > 0 the error object thrown by the k-th provider invocation
NewError(message) ==
    [message |-> message, status |-> NoStatus, dataErrorMessage |-> <<>>,
     errorErrorMessage |-> <<>>, responseBody |-> <<>>, origin |-> 0]

----------------------------------------------------------------------------
(* Configuration (config-manager.js getters, .taskmasterconfig) *)

Roles == {"main", "research", "fallback"}

ServiceTypes == {"generateText", "streamText", "generateObject"}

DefaultModels ==
    [main     |-> [provider |-> "openai", modelId |-> "gpt-4o",
                   maxTokens |-> 100000, temperature |-> 2],
     research |-> [provider |-> "openai", modelId |-> "gemini-2.5-flash-preview-05-20",
                   maxTokens |-> 8700, temperature |-> 1],
     fallback |-> [provider |-> "openai", modelId |-> "gemini-2.5-flash-preview-05-20",
                   maxTokens |-> 8192, temperature |-> 2]]

\* what the getters yield when the project has no configuration: no provider and no
\* model for any role
NoConfiguration ==
    [role \in Roles |-> [DefaultModels[role] EXCEPT !.provider = Undefined,
                                                    !.modelId = Undefined]]

\* the role tables the project configuration may hold
Configs ==
    {DefaultModels,
     NoConfiguration,
     [DefaultModels EXCEPT !["main"].provider = Undefined],
     [DefaultModels EXCEPT !["main"].modelId = Undefined],
     [DefaultModels EXCEPT !["main"].provider = "ollama"],
     [DefaultModels EXCEPT !["main"].provider = "OpenAI",
                           !["research"].provider = Undefined]}

\* process environment / session / .env as seen by resolveEnvVariable
Secrets == {EmptyObject, [OPENAI_API_KEY |-> "mock-openai-key"]}

UserIds == {Undefined, "1234567890"}

\* telemetryFault: the body of logAiUsage throws; it is called only with a user id
Envs ==
    {e \in [models : Configs, secrets : Secrets, userId : UserIds,
            telemetryFault : BOOLEAN] : e.telemetryFault => e.userId # Undefined}

getProvider(e, role) == e.models[role].provider

getModelId(e, role) == e.models[role].modelId

getParametersForRole(e, role) ==
    LET r == IF role \in Roles THEN role ELSE "main"
    IN  [maxTokens |-> e.models[r].maxTokens, temperature |-> e.models[r].temperature]

getBaseUrlForRole(e, role) == Undefined

getUserId(e) == e.userId

resolveEnvVariable(e, name) == Get(e.secrets, name)

\* the pricing table: 5 and 15 USD per million tokens for gpt-4o, and a model priced
\* in cents (0.15 and 0.60 USD)
MODEL_MAP ==
    [openai |-> {[id |-> "gpt-4o", input |-> 500, output |-> 1500, currency |-> "USD"],
                 [id |-> "gpt-4o-mini", input |-> 15, output |-> 60, currency |-> "USD"]}]

----------------------------------------------------------------------------
(* Helpers of ai-services-unified.js *)

ZeroCost == [inputCost |-> 0, outputCost |-> 0, currency |-> "USD"]

_getCostForModel(providerName, modelId) ==
    IF providerName \notin DOMAIN MODEL_MAP
    THEN ZeroCost
    ELSE LET found == {m \in MODEL_MAP[providerName] : m.id = modelId}
         IN  IF found = {}
             THEN ZeroCost
             ELSE LET modelData == CHOOSE m \in found : TRUE
                  IN  [inputCost |-> modelData.input,
                       outputCost |-> modelData.output,
                       currency |-> modelData.currency]

PROVIDER_FUNCTIONS ==
    [openai |-> [generateText   |-> "generateOpenAIText",
                 streamText     |-> "streamOpenAIText",
                 generateObject |-> "generateOpenAIObject"]]

MAX_RETRIES == 2

INITIAL_RETRY_DELAY_MS == 1000

RetryablePhrases ==
    {<<"rate", "limit">>, <<"overloaded">>,
     <<"service", "temporarily", "unavailable">>,
     <<"timeout">>, <<"network", "error">>}

isRetryableError_always(error) == TRUE

isRetryableError_clientErrors(error) ==
    LET errorMessage == toLowerCase(error.message)
    IN  \/ \E phrase \in RetryablePhrases : includes(errorMessage, phrase)
        \/ error.status >= 400

isRetryableError(error) ==
    LET errorMessage == toLowerCase(error.message)
    IN  \/ \E phrase \in RetryablePhrases : includes(errorMessage, phrase)
        \/ error.status = 429
        \/ error.status >= 500

UnknownErrorMessage == <<"An", "unknown", "AI", "service", "error", "occurred.">>

\* error?.<field>: empty for a field the error does not have, and for an error that is
\* null or a string
Field(error, key) == IF key \in DOMAIN error THEN error[key] ELSE <<>>

_extractErrorMessage_topLevelFirst(error) ==
    IF Field(error, "message") # <<>> THEN error.message
    ELSE IF Field(error, "dataErrorMessage") # <<>> THEN error.dataErrorMessage
    ELSE IF Field(error, "errorErrorMessage") # <<>> THEN error.errorErrorMessage
    ELSE IF "text" \in DOMAIN error THEN error.text
    ELSE UnknownErrorMessage

\* an error is an object with the fields it has, [text |-> words] when it is a
\* string, and the empty object when it is null or undefined; its responseBody is a
\* string, given with what JSON.parse makes of it: not JSON, or JSON with or without
\* error.message
_extractErrorMessage(error) ==
    IF Field(error, "dataErrorMessage") # <<>> THEN error.dataErrorMessage
    ELSE IF Field(error, "errorErrorMessage") # <<>> THEN error.errorErrorMessage
    ELSE IF /\ Field(error, "responseBody") # <<>>
            /\ error.responseBody[1].json
            /\ error.responseBody[1].errorMessage # <<>>
         THEN error.responseBody[1].errorMessage
    ELSE IF Field(error, "message") # <<>> THEN error.message
    ELSE IF "text" \in DOMAIN error THEN error.text
    ELSE UnknownErrorMessage

keyMap == [openai |-> "OPENAI_API_KEY"]

_resolveApiKey_placeholder(e, providerName) ==
    [threw |-> FALSE, apiKey |-> "no-key-required", error |-> <<>>]

\* the returned record tells a thrown error from a returned value
_resolveApiKey(e, providerName) ==
    IF providerName \notin DOMAIN keyMap
    THEN IF providerName = "ollama"
         THEN [threw |-> FALSE, apiKey |-> "ollama-no-key-required", error |-> <<>>]
         ELSE [threw |-> TRUE, apiKey |-> Undefined,
               error |-> <<NewError(<<"Unknown", "provider", providerName,
                                      "for", "API", "key", "resolution.">>)>>]
    ELSE LET apiKey == resolveEnvVariable(e, keyMap[providerName])
         IN  IF ~Truthy(apiKey)
             THEN [threw |-> FALSE, apiKey |-> Undefined, error |-> <<>>]
             ELSE [threw |-> FALSE, apiKey |-> apiKey, error |-> <<>>]

\* an absent token count
NoCount == 0 - 1

\* token counts: (n || 0)
OrZero(n) == IF n = NoCount THEN 0 ELSE n

toFixed6_truncate(cost) == (cost \div 100) * 100

\* parseFloat(cost.toFixed(6)): the cost, in hundred-millionths of a USD, rounded to
\* the nearest millionth
toFixed6(cost) == ((cost + 50) \div 100) * 100

\* logAiUsage: <<record>>, or <<>> for the null it returns when its body throws
logAiUsage(p, fault) ==
    IF fault
    THEN <<>>
    ELSE LET cost == _getCostForModel(p.providerName, p.modelId)
             inTok == OrZero(p.inputTokens)
             outTok == OrZero(p.outputTokens)
         IN  <<[userId |-> p.userId,
                commandName |-> p.commandName,
                modelUsed |-> p.modelId,
                providerName |-> p.providerName,
                inputTokens |-> inTok,
                outputTokens |-> outTok,
                totalTokens |-> inTok + outTok,
                totalCost |-> toFixed6(inTok * cost.inputCost + outTok * cost.outputCost),
                currency |-> cost.currency]>>

----------------------------------------------------------------------------
(* One service call: the record a call carries from entry to return *)

NoResult ==
    [status |-> "none", mainResult |-> Undefined, telemetryData |-> <<>>, error |-> <<>>]

\* pc: idle -> calling (a provider invocation is pending) -> delay (backoff timer
\* pending) -> calling ... -> done
IdleCall ==
    [pc |-> "idle", id |-> 0, serviceType |-> Undefined, params |-> EmptyObject,
     providerName |-> Undefined, modelId |-> Undefined, rolesTried |-> <<>>,
     callParams |-> <<>>, retries |-> 0, trace |-> <<>>, errors |-> <<>>,
     response |-> <<>>, thrown |-> <<>>, recorder |-> "notCalled",
     result |-> NoResult, backendErrors |-> <<>>, requests |-> <<>>]

Event(ev, val) == [ev |-> ev, val |-> val]

Invocations(c) == Cardinality({i \in DOMAIN c.trace : c.trace[i].ev = "invoke"})

Delays(c) ==
    LET idx == {i \in DOMAIN c.trace : c.trace[i].ev = "delay"}
        F[i \in 0..Len(c.trace)] ==
            IF i = 0 THEN <<>>
            ELSE IF i \in idx THEN Append(F[i - 1], c.trace[i].val) ELSE F[i - 1]
    IN  F[Len(c.trace)]

----------------------------------------------------------------------------
(* _unifiedServiceRunner *)

getMainProvider(e) == getProvider(e, "main")
getMainModelId(e) == getModelId(e, "main")
getResearchProvider(e) == getProvider(e, "research")
getResearchModelId(e) == getModelId(e, "research")
getFallbackProvider(e) == getProvider(e, "fallback")
getFallbackModelId(e) == getModelId(e, "fallback")

ResolveRole_mainOnly(e, initialRole) ==
    [providerName |-> getMainProvider(e), modelId |-> getMainModelId(e), role |-> "main"]

\* switch (initialRole)
ResolveRole(e, initialRole) ==
    CASE initialRole = "main" ->
           [providerName |-> getMainProvider(e), modelId |-> getMainModelId(e),
            role |-> "main"]
      [] initialRole = "research" ->
           [providerName |-> getResearchProvider(e), modelId |-> getResearchModelId(e),
            role |-> "research"]
      [] initialRole = "fallback" ->
           [providerName |-> getFallbackProvider(e), modelId |-> getFallbackModelId(e),
            role |-> "fallback"]
      [] OTHER ->
           [providerName |-> getMainProvider(e), modelId |-> getMainModelId(e),
            role |-> "main"]

DestructuredKeys_passThrough ==
    {"role", "session", "projectRoot", "systemPrompt", "prompt", "schema", "objectName"}

\* the properties the runner takes out of params (lines 432-443); the rest is
\* restApiParams
DestructuredKeys ==
    {"role", "session", "projectRoot", "systemPrompt", "prompt", "schema",
     "objectName", "commandName", "outputType"}

ToolUsePhrases ==
    {<<"no", "endpoints", "found", "that", "support", "tool", "use">>,
     <<"does", "not", "support", "tool_use">>,
     <<"tool", "use", "is", "not", "supported">>,
     <<"tools", "are", "not", "supported">>,
     <<"function", "calling", "is", "not", "supported">>}

OrUnknown(v) == IF Truthy(v) THEN v ELSE "unknown"

MissingPromptMessage == <<"User", "prompt", "content", "is", "missing.">>

ConfigMissingMessage(initialRole, providerName, modelId) ==
    <<"Critical", "configuration", "missing", "for", "role", initialRole,
      "Provider:", providerName, "Model:", modelId>>

UnsupportedProviderMessage(providerName) ==
    <<"Unsupported", "provider", "configured:", providerName>>

ServiceNotImplementedMessage(serviceType, providerName) ==
    <<"Service", serviceType, "not", "implemented", "for", "provider", providerName>>

ApiKeyMissingMessage(providerName) ==
    <<"API", "key", "missing", "for", "provider", providerName>>

ToolSupportMessage(modelId, providerName, initialRole) ==
    <<"Model", OrUnknown(modelId), "via", "provider", OrUnknown(providerName),
      "does", "not", "support", "the", "tool", "use", "required", "by",
      "generateObjectService.", "Please", "configure", "a", "model", "that",
      "supports", "tool/function", "calling", "for", "the", initialRole, "role">>

BuildMessages_alwaysSystem(systemPrompt, prompt) ==
    <<[role |-> "system", content |-> systemPrompt],
      [role |-> "user", content |-> prompt]>>

\* the messages array of lines 539-547, for a prompt that is present
BuildMessages(systemPrompt, prompt) ==
    (IF Truthy(systemPrompt)
     THEN <<[role |-> "system", content |-> systemPrompt]>>
     ELSE <<>>)
    \o <<[role |-> "user", content |-> prompt]>>

\* the try block up to the call of the retry executor (lines 487-562)
RunnerSetup(e, serviceType, params) ==
    LET initialRole == Get(params, "role")
        systemPrompt == Get(params, "systemPrompt")
        prompt == Get(params, "prompt")
        restApiParams == Rest(params, DestructuredKeys)
        resolved == ResolveRole(e, initialRole)
        providerName == resolved.providerName
        modelId == resolved.modelId
        lower == LowerWord(providerName)
        Fail(err) ==
            [ok |-> FALSE, error |-> <<err>>, providerName |-> providerName,
             modelId |-> modelId, role |-> resolved.role, callParams |-> <<>>]
    IN  IF ~Truthy(providerName) \/ ~Truthy(modelId)
        THEN Fail(NewError(ConfigMissingMessage(initialRole, providerName, modelId)))
        ELSE IF lower \notin DOMAIN PROVIDER_FUNCTIONS
        THEN Fail(NewError(UnsupportedProviderMessage(providerName)))
        ELSE IF serviceType \notin DOMAIN PROVIDER_FUNCTIONS[lower]
        THEN Fail(NewError(ServiceNotImplementedMessage(serviceType, providerName)))
        ELSE LET key == _resolveApiKey(e, lower)
             IN  IF key.threw
                 THEN Fail(key.error[1])
                 ELSE IF key.apiKey = Undefined
                 THEN Fail(NewError(ApiKeyMissingMessage(providerName)))
                 ELSE IF ~Truthy(prompt)
                 THEN Fail(NewError(MissingPromptMessage))
                 ELSE LET roleParams == getParametersForRole(e, initialRole)
                          messages == BuildMessages(systemPrompt, prompt)
                          base ==
                              [apiKey |-> key.apiKey,
                               modelId |-> modelId,
                               maxTokens |-> roleParams.maxTokens,
                               temperature |-> roleParams.temperature,
                               messages |-> messages,
                               baseUrl |-> getBaseUrlForRole(e, initialRole)]
                          objectPart ==
                              IF serviceType = "generateObject"
                              THEN [schema |-> Get(params, "schema"),
                                    objectName |-> Get(params, "objectName")]
                              ELSE EmptyObject
                      IN  [ok |-> TRUE, error |-> <<>>, providerName |-> providerName,
                           modelId |-> modelId, role |-> resolved.role,
                           callParams |->
                               <<Spread(Spread(base, objectPart), restApiParams)>>]

RunnerCatch_rethrow(c, error) ==
    [c EXCEPT !.pc = "done",
              !.result = [status |-> "error", mainResult |-> Undefined,
                          telemetryData |-> <<>>, error |-> <<error>>]]

\* the catch block (lines 664-691): the call ends with one flattened Error
RunnerCatch(c, error) ==
    LET cleanMessage == _extractErrorMessage(error)
        lowerCaseMessage == toLowerCase(cleanMessage)
        toolUse ==
            /\ c.serviceType = "generateObject"
            /\ \E phrase \in ToolUsePhrases : includes(lowerCaseMessage, phrase)
        message ==
            IF toolUse
            THEN ToolSupportMessage(c.modelId, c.providerName, Get(c.params, "role"))
            ELSE cleanMessage
    IN  [c EXCEPT !.pc = "done",
                  !.result = [status |-> "error", mainResult |-> Undefined,
                              telemetryData |-> <<>>, error |-> <<NewError(message)>>]]

HasUsage_never(providerResponse) == FALSE

\* truthiness of providerResponse.usage
HasUsage(providerResponse) == "usage" \in DOMAIN providerResponse

ExtractMainResult(serviceType, providerResponse) ==
    IF serviceType = "generateText" THEN providerResponse.text
    ELSE IF serviceType = "generateObject" THEN providerResponse.object
    ELSE providerResponse

\* await logAiUsage(...) as the runner sees it: a value, or a rejection
AwaitLogAiUsage_rethrow(p, fault) ==
    [threw |-> fault, data |-> logAiUsage(p, FALSE)]

AwaitLogAiUsage(p, fault) == [threw |-> FALSE, data |-> logAiUsage(p, fault)]

Success(c, providerResponse, telemetryData) ==
    [c EXCEPT !.pc = "done",
              !.response = <<providerResponse>>,
              !.result = [status |-> "ok",
                          mainResult |-> ExtractMainResult(c.serviceType, providerResponse),
                          telemetryData |-> telemetryData, error |-> <<>>]]

TelemetryResult_propagate(c, providerResponse, r) ==
    IF r.threw \/ r.data = <<>>
    THEN RunnerCatch([c EXCEPT !.response = <<providerResponse>>, !.recorder = "null"],
                     NewError(<<"Telemetry", "logging", "failed">>))
    ELSE [Success(c, providerResponse, r.data) EXCEPT !.recorder = "record"]

\* the try/catch around the await of logAiUsage (lines 575-626)
TelemetryResult(c, providerResponse, r) ==
    IF r.threw
    THEN [Success(c, providerResponse, <<>>) EXCEPT !.recorder = "threw"]
    ELSE [Success(c, providerResponse, r.data) EXCEPT
              !.recorder = IF r.data = <<>> THEN "null" ELSE "record"]

\* telemetry and result extraction (lines 573-663)
RunnerSuccess(e, c, providerResponse) ==
    LET userId == getUserId(e)
    IN  IF Truthy(userId) /\ HasUsage(providerResponse)
        THEN TelemetryResult(c, providerResponse,
                 AwaitLogAiUsage(
                     [userId |-> userId,
                      commandName |-> Get(c.params, "commandName"),
                      providerName |-> c.providerName,
                      modelId |-> c.modelId,
                      inputTokens |-> providerResponse.usage.inputTokens,
                      outputTokens |-> providerResponse.usage.outputTokens,
                      outputType |-> Get(c.params, "outputType")],
                     e.telemetryFault))
        ELSE Success(c, providerResponse, <<>>)

UsageRecordsOf_perAttempt(c) ==
    IF c.recorder = "record" THEN [i \in 1..c.retries + 1 |-> c.id] ELSE <<>>

\* the usage records a call has produced: one for each record logAiUsage returned
UsageRecordsOf(c) == IF c.recorder = "record" THEN <<c.id>> ELSE <<>>

\* the outcome a call that has ended adds to the history
OutcomeOf(c) == IF c.pc = "done" THEN <<c.result.status>> ELSE <<>>

----------------------------------------------------------------------------
(* _attemptProviderCallWithRetries *)

ExhaustedMessage(attemptRole, providerName) ==
    <<"Exhausted", "all", "retries", "for", "role", attemptRole, providerName>>

\* top of the while loop: the next provider invocation, or the throw after the loop
ExecutorLoop(c) ==
    IF c.retries <= MAX_RETRIES
    THEN [c EXCEPT !.pc = "calling",
                   !.requests = Append(@, c.callParams[1]),
                   !.trace = Append(@, Event("invoke", c.retries + 1))]
    ELSE LET error == NewError(ExhaustedMessage(Get(c.params, "role"), c.providerName))
         IN  RunnerCatch([c EXCEPT !.thrown = <<error>>], error)

shouldRetry_unbounded(error, retries) == isRetryableError(error)

\* the condition of line 393
shouldRetry(error, retries) == isRetryableError(error) /\ retries < MAX_RETRIES

retryDelay_noOffset(retries) == INITIAL_RETRY_DELAY_MS * Pow2(retries)

\* the delay of line 395, computed after retries++
retryDelay(retries) == INITIAL_RETRY_DELAY_MS * Pow2(retries - 1)

ExecutorCatch_lostWakeup(c, error) ==
    LET failed == [c EXCEPT !.errors = Append(@, error),
                            !.trace = Append(@, Event("fail", c.retries + 1))]
    IN  IF shouldRetry(error, c.retries)
        THEN [failed EXCEPT !.retries = c.retries + 1,
                            !.trace = Append(@, Event("delay", retryDelay(c.retries + 1))),
                            !.pc = "stalled"]
        ELSE RunnerCatch([failed EXCEPT !.thrown = <<error>>], error)

\* the catch block of the loop (lines 387-408)
ExecutorCatch(c, error) ==
    LET failed == [c EXCEPT !.errors = Append(@, error),
                            !.trace = Append(@, Event("fail", c.retries + 1))]
    IN  IF shouldRetry(error, c.retries)
        THEN [failed EXCEPT !.retries = c.retries + 1,
                            !.trace = Append(@, Event("delay", retryDelay(c.retries + 1))),
                            !.pc = "delay"]
        ELSE RunnerCatch([failed EXCEPT !.thrown = <<error>>], error)

\* line 386: the provider's result is returned to the runner
ExecutorReturn(c) ==
    [c EXCEPT !.trace = Append(@, Event("return", c.retries + 1))]

----------------------------------------------------------------------------
(* OpenAI adapter (src/ai-providers/openai.js) *)

AdapterToolUsePhrases ==
    {<<"no", "endpoints", "found", "that", "support", "tool", "use">>,
     <<"does", "not", "support", "tool_use">>,
     <<"tool", "use", "is", "not", "supported">>,
     <<"tools", "are", "not", "supported">>,
     <<"function", "calling", "is", "not", "supported">>}

OpenAIToolSupportMessage(modelId) ==
    <<"Model", modelId, "via", "OpenAI", "API", "does", "not", "support", "the",
      "tool", "use", "(function", "calling)", "required", "for", "object",
      "generation.", "Please", "configure", "a", "model", "that", "supports",
      "tool/function", "calling", "for", "this", "role.">>

OpenAIObjectErrorMessage(message) ==
    <<"OpenAI", "API", "error", "during", "object", "generation:">> \o message

\* the catch block of generateOpenAIObject: what the adapter throws for an error of
\* the backend call
generateOpenAIObjectCatch(params, error) ==
    LET lowerCaseMessage == toLowerCase(error.message)
    IN  IF \E phrase \in AdapterToolUsePhrases : includes(lowerCaseMessage, phrase)
        THEN NewError(OpenAIToolSupportMessage(params.modelId))
        ELSE NewError(OpenAIObjectErrorMessage(error.message))

\* the names bound in the scope of openai.js: its imports and its function
\* declarations
ModuleScope ==
    {"createOpenAI", "generateText", "OpenAI", "log", "getAiSdkClient",
     "getOpenAIClient", "generateOpenAIText", "streamOpenAIText", "generateOpenAIObject"}

\* what an adapter function settles with: the value it resolves to, or the error it
\* rejects with, and the requests it has sent to the backend
Resolved(value, sent) == [threw |-> FALSE, value |-> <<value>>, error |-> <<>>, sent |-> sent]

Rejected(message, sent) ==
    [threw |-> TRUE, value |-> <<>>, error |-> <<NewError(message)>>, sent |-> sent]

\* the evaluation of an identifier that is not bound: a ReferenceError
ReferenceErrorMessage(name) == <<name, "is", "not", "defined">>

OpenAITextErrorMessage(message) ==
    <<"OpenAI", "API", "error", "during", "text", "generation:">> \o message

OpenAIStreamErrorMessage(message) ==
    <<"OpenAI", "API", "error", "during", "streaming", "initiation:">> \o message

\* String.prototype.trim on the texts of the model
trim(text) ==
    CASE text = " Hello " -> "Hello"
      [] text = " " -> ""
      [] OTHER -> text

\* generateOpenAIText (lines 38-91); backend is what generateText of the ai package
\* settles with
generateOpenAIText(params, backend) ==
    IF ~Truthy(params.apiKey)
    THEN Rejected(<<"OpenAI", "API", "key", "is", "required.">>, <<>>)
    ELSE IF ~Truthy(params.modelId)
    THEN Rejected(<<"OpenAI", "Model", "ID", "is", "required.">>, <<>>)
    ELSE IF params.messages = <<>>
    THEN Rejected(<<"Invalid", "or", "empty", "messages", "array", "provided", "for",
                    "OpenAI.">>, <<>>)
    ELSE IF "getClient" \notin ModuleScope
    THEN Rejected(ReferenceErrorMessage("getClient"), <<>>)
    ELSE LET sent == <<[model |-> params.modelId, messages |-> params.messages,
                        maxTokens |-> params.maxTokens,
                        temperature |-> params.temperature]>>
         IN  IF backend.rejects
             THEN Rejected(OpenAITextErrorMessage(backend.error.message), sent)
             ELSE IF ~Truthy(backend.result.text)
             THEN Rejected(OpenAITextErrorMessage(
                               <<"Failed", "to", "extract", "content", "from", "OpenAI",
                                 "response.">>), sent)
             ELSE Resolved([text |-> trim(backend.result.text),
                            usage |-> [inputTokens |-> backend.result.usage.promptTokens,
                                       outputTokens |->
                                           backend.result.usage.completionTokens]],
                           sent)

\* streamOpenAIText (lines 100-140); backend is what chat.stream settles with
streamOpenAIText(params, backend) ==
    IF ~Truthy(params.apiKey)
    THEN Rejected(<<"OpenAI", "API", "key", "is", "required.">>, <<>>)
    ELSE IF ~Truthy(params.modelId)
    THEN Rejected(<<"OpenAI", "Model", "ID", "is", "required.">>, <<>>)
    ELSE IF params.messages = <<>>
    THEN Rejected(<<"Invalid", "or", "empty", "messages", "array", "provided", "for",
                    "OpenAI", "streaming.">>, <<>>)
    ELSE IF "getClient" \notin ModuleScope
    THEN Rejected(ReferenceErrorMessage("getClient"), <<>>)
    ELSE LET sent == <<[model |-> params.modelId, messages |-> params.messages,
                        max_tokens |-> params.maxTokens,
                        temperature |-> params.temperature]>>
         IN  IF backend.rejects
             THEN Rejected(OpenAIStreamErrorMessage(backend.error.message), sent)
             ELSE Resolved(backend.result, sent)

\* JSON.parse on the argument texts of the model: the parsed object, or none for a
\* text that is not JSON (a SyntaxError)
JSONParse(text) ==
    CASE text = "{\"tasks\": []}" -> <<[tasks |-> <<>>]>>
      [] text = "{}" -> <<EmptyObject>>
      [] OTHER -> <<>>

ToolCallAccepted_anyName(toolCalls, objectName) ==
    /\ toolCalls # <<>>
    /\ toolCalls[1].function.arguments # ""

\* the test of lines 208-212 on the first tool call of the response
ToolCallAccepted(toolCalls, objectName) ==
    /\ toolCalls # <<>>
    /\ toolCalls[1].function.name = objectName
    /\ toolCalls[1].function.arguments # ""

\* the request of lines 180-198
ObjectRequest(params) ==
    [model |-> params.modelId,
     messages |-> params.messages,
     tools |-> <<[type |-> "function",
                  function |-> [name |-> params.objectName,
                                description |-> <<"Generate", "a", "JSON", "object",
                                                  "for", params.objectName>>,
                                parameters |-> params.schema[1]]]>>,
     tool_choice |-> [type |-> "function", function |-> [name |-> params.objectName]],
     max_tokens |-> params.maxTokens,
     temperature |-> params.temperature]

\* generateOpenAIObject (lines 149-253); backend is what chat.completions.create
\* settles with
generateOpenAIObject(params, backend) ==
    IF ~Truthy(params.apiKey)
    THEN Rejected(<<"OpenAI", "API", "key", "is", "required.">>, <<>>)
    ELSE IF ~Truthy(params.modelId)
    THEN Rejected(<<"OpenAI", "Model", "ID", "is", "required.">>, <<>>)
    ELSE IF params.messages = <<>>
    THEN Rejected(<<"Invalid", "messages", "array", "for", "OpenAI", "object",
                    "generation.">>, <<>>)
    ELSE IF params.schema = <<>>
    THEN Rejected(<<"Schema", "is", "required", "for", "OpenAI", "object",
                    "generation.">>, <<>>)
    ELSE IF ~Truthy(params.objectName)
    THEN Rejected(<<"Object", "name", "is", "required", "for", "OpenAI", "object",
                    "generation.">>, <<>>)
    ELSE LET sent == <<ObjectRequest(params)>>
             Caught(error) ==
                 [threw |-> TRUE, value |-> <<>>,
                  error |-> <<generateOpenAIObjectCatch(params, error)>>, sent |-> sent]
         IN  IF backend.rejects
             THEN Caught(backend.error)
             ELSE LET response == backend.response
                      toolCalls == IF response.choices = <<>>
                                   THEN <<>>
                                   ELSE response.choices[1].message.tool_calls
                  IN  IF ~ToolCallAccepted(toolCalls, params.objectName)
                      THEN Caught(NewError(<<"Failed", "to", "extract", "object", "from",
                                             "OpenAI", "response.">>))
                      ELSE LET parsedObject == JSONParse(toolCalls[1].function.arguments)
                           IN  IF parsedObject = <<>>
                               THEN Caught(NewError(<<"Unexpected", "token", "in", "JSON">>))
                               ELSE Resolved(
                                        [object |-> parsedObject[1],
                                         usage |->
                                             IF response.usage = <<>>
                                             THEN [inputTokens |-> 0, outputTokens |-> 0]
                                             ELSE [inputTokens |->
                                                       response.usage[1].prompt_tokens,
                                                   outputTokens |->
                                                       response.usage[1].completion_tokens]],
                                        sent)

----------------------------------------------------------------------------
(* Model configuration (scripts/modules/task-manager/models.js) *)

\* the names bound in the scope of models.js: its imports and its function
\* declarations
ModelsScope ==
    {"path", "fs", "getMainModelId", "getResearchModelId", "getFallbackModelId",
     "getAvailableModels", "getMainProvider", "getResearchProvider",
     "getFallbackProvider", "isApiKeySet", "getMcpApiKeyStatus", "getConfig",
     "writeConfig", "isConfigFilePresent", "getAllProviders", "getModelConfiguration",
     "getAvailableModelsList", "setModel", "getApiKeyStatusReport"}

\* the supported models, each with its provider
AvailableModels ==
    UNION {{[id |-> m.id, provider |-> providerName] : m \in MODEL_MAP[providerName]} :
              providerName \in DOMAIN MODEL_MAP}

SettableRoles == {"main", "research", "search", "fallback"}

ConfigFileMissingMessage ==
    <<"The", ".taskmasterconfig", "file", "is", "missing.", "Run", "task-master",
      "models", "--setup", "to", "create", "it.">>

\* { success: false, error: { code, message } }
Failure(code, message) ==
    [success |-> FALSE, code |-> code, message |-> message, data |-> <<>>]

\* { success: true, data }
Ok(data) == [success |-> TRUE, code |-> "", message |-> <<>>, data |-> <<data>>]

ConfigExists_assumed(proj, projectRoot) == TRUE

\* fs.existsSync(path.join(projectRoot, '.taskmasterconfig')), or isConfigFilePresent()
\* when no project root is given: both look for the file of the one project
ConfigExists(proj, projectRoot) == proj.config # <<>>

\* the configuration the getters of config-manager.js read
ReadConfig(proj) ==
    IF proj.config = <<>>
    THEN [models |-> EmptyObject, global |-> EmptyObject]
    ELSE proj.config[1]

RoleSetting(proj, role, key) ==
    LET models == ReadConfig(proj).models
    IN  IF role \in DOMAIN models THEN Get(models[role], key) ELSE Undefined

Reading(proj, n) == [proj EXCEPT !.reads = @ + n]

\* getModelConfiguration (lines 873-1022)
getModelConfiguration(proj, options) ==
    IF ~ConfigExists(proj, options.projectRoot)
    THEN [result |-> Failure("CONFIG_MISSING", ConfigFileMissingMessage), project |-> proj]
    ELSE IF "getSearchProvider" \notin ModelsScope
    THEN [result |-> Failure("CONFIG_ERROR", ReferenceErrorMessage("getSearchProvider")),
          project |-> Reading(proj, 4)]
    ELSE LET Active(role) ==
                 [provider |-> RoleSetting(proj, role, "provider"),
                  modelId |-> RoleSetting(proj, role, "modelId")]
         IN  [result |->
                  Ok([activeModels |->
                                  [role \in SettableRoles |->
                                      IF role \in {"search", "fallback"}
                                         /\ ~Truthy(RoleSetting(proj, role, "provider"))
                                      THEN <<>> ELSE <<Active(role)>>]]),
              project |-> Reading(proj, 8)]

\* getAvailableModelsList (lines 1032-1104)
getAvailableModelsList(proj, options) ==
    IF ~ConfigExists(proj, options.projectRoot)
    THEN [result |-> Failure("CONFIG_MISSING", ConfigFileMissingMessage), project |-> proj]
    ELSE IF AvailableModels = {}
    THEN [result |-> Ok([models |-> {}]), project |-> proj]
    ELSE IF "getSearchModelId" \notin ModelsScope
    THEN [result |-> Failure("MODELS_LIST_ERROR",
                             ReferenceErrorMessage("getSearchModelId")),
          project |-> Reading(proj, 2)]
    ELSE [result |-> Ok([models |->
                                     {[provider |-> m.provider, modelId |-> m.id] :
                                         m \in AvailableModels}]),
          project |-> Reading(proj, 4)]

UpdatedEntry_replace(old, determinedProvider, modelId) ==
    [provider |-> determinedProvider, modelId |-> modelId]

\* { ...currentConfig.models[role], provider: determinedProvider, modelId: modelId }
UpdatedEntry(old, determinedProvider, modelId) ==
    Spread(old, [provider |-> determinedProvider, modelId |-> modelId])

SetModelCatch_rethrow(proj, message) ==
    [result |-> [threw |-> TRUE, message |-> message], project |-> Reading(proj, 1)]

\* the catch block of setModel: the error becomes a SET_MODEL_ERROR result
SetModelCatch(proj, message) ==
    [result |-> Failure("SET_MODEL_ERROR", message), project |-> Reading(proj, 1)]

\* setModel (lines 1117-1293); writeOk is what writeConfig returns
setModel(proj, role, modelId, options, writeOk) ==
    LET Fail(code, message) == [result |-> Failure(code, message), project |-> proj]
        Caught(message) == SetModelCatch(proj, message)
        found == {m \in AvailableModels : m.id = modelId}
        providerHint == options.providerHint
        Update(determinedProvider, warning) ==
            LET currentConfig == ReadConfig(proj)
                old == IF role \in DOMAIN currentConfig.models
                       THEN currentConfig.models[role] ELSE EmptyObject
                entry == UpdatedEntry(old, determinedProvider, modelId)
                newConfig ==
                    [currentConfig EXCEPT
                         !.models = Spread(@, [r \in {role} |-> entry])]
            IN  IF ~Truthy(determinedProvider)
                THEN [result |->
                          Failure("PROVIDER_UNDETERMINED",
                                  <<"Could", "not", "determine", "the", "provider", "for",
                                    "model", "ID", modelId>>),
                      project |-> Reading(proj, 1)]
                ELSE IF ~writeOk
                THEN [result |->
                          Failure("WRITE_ERROR",
                                  <<"Error", "writing", "updated", "configuration", "to",
                                    ".taskmasterconfig">>),
                      project |-> Reading(proj, 1)]
                ELSE [result |-> Ok([role |-> role,
                                             provider |-> determinedProvider,
                                             modelId |-> modelId,
                                             warning |-> warning]),
                      project |-> [config |-> <<newConfig>>, reads |-> proj.reads + 1,
                                   writes |-> proj.writes + 1]]
    IN  IF ~ConfigExists(proj, options.projectRoot)
        THEN Fail("CONFIG_MISSING", ConfigFileMissingMessage)
        ELSE IF role \notin SettableRoles
        THEN Fail("INVALID_ROLE",
                  <<"Invalid", "role:", role, "Must", "be", "one", "of:", "main,",
                    "research,", "search,", "fallback.">>)
        ELSE IF modelId = Undefined \/ trim(modelId) = ""
        THEN Fail("INVALID_MODEL_ID",
                  <<"Invalid", "model", "ID:", modelId, "Must", "be", "a", "non-empty",
                    "string.">>)
        ELSE IF Truthy(providerHint)
        THEN IF found # {} /\ (CHOOSE m \in found : TRUE).provider = providerHint
             THEN Update(providerHint, FALSE)
             ELSE IF providerHint = "ollama"
             THEN Update("ollama", TRUE)
             ELSE Caught(<<"Invalid", "provider", "hint", "received:", providerHint>>)
        ELSE IF found # {}
        THEN Update((CHOOSE m \in found : TRUE).provider, FALSE)
        ELSE IF "isOllamaModel" \notin ModelsScope
        THEN Caught(ReferenceErrorMessage("isOllamaModel"))
        ELSE [result |->
                  Failure("MODEL_NOT_FOUND_NO_HINT",
                          <<"Model", "ID", modelId, "not", "found", "in", "Taskmaster's",
                            "supported", "models.">>),
              project |-> Reading(proj, 1)]

----------------------------------------------------------------------------
(* Service facades *)

FacadeDefaults(serviceType) ==
    IF serviceType = "generateObject"
    THEN [objectName |-> "generated_object", maxRetries |-> 3, outputType |-> "cli"]
    ELSE [outputType |-> "cli"]

StartCall_promptFirst(e, id, serviceType, params) ==
    LET combinedParams == Spread(FacadeDefaults(serviceType), params)
        setup == RunnerSetup(e, serviceType, combinedParams)
        c == [IdleCall EXCEPT !.id = id,
                              !.serviceType = serviceType,
                              !.params = combinedParams,
                              !.providerName = setup.providerName,
                              !.modelId = setup.modelId,
                              !.rolesTried = <<setup.role>>,
                              !.callParams = setup.callParams]
    IN  IF ~Truthy(Get(combinedParams, "prompt"))
        THEN RunnerCatch(c, NewError(MissingPromptMessage))
        ELSE IF setup.ok THEN ExecutorLoop(c) ELSE RunnerCatch(c, setup.error[1])

\* generateTextService / streamTextService / generateObjectService up to the first
\* suspension of the call
StartCall(e, id, serviceType, params) ==
    LET combinedParams == Spread(FacadeDefaults(serviceType), params)
        setup == RunnerSetup(e, serviceType, combinedParams)
        c == [IdleCall EXCEPT !.id = id,
                              !.serviceType = serviceType,
                              !.params = combinedParams,
                              !.providerName = setup.providerName,
                              !.modelId = setup.modelId,
                              !.rolesTried = <<setup.role>>,
                              !.callParams = setup.callParams]
    IN  IF setup.ok THEN ExecutorLoop(c) ELSE RunnerCatch(c, setup.error[1])

----------------------------------------------------------------------------
(* Inputs *)

RoleInputs == Roles \cup {"admin"}

Optional(key, values) == {EmptyObject} \cup {[k \in {key} |-> v] : v \in values}

\* the optional properties of a call: none, a system prompt, or an output type
OptionInputs ==
    Optional("systemPrompt", {"", "System"}) \cup Optional("outputType", {"mcp"})

ParamInputs(serviceType) ==
    {Spread(Spread(Spread([role |-> r, commandName |-> "parse-prd"], p), o), sc) :
        r \in RoleInputs,
        p \in Optional("prompt", {"", "Test"}),
        o \in OptionInputs,
        sc \in IF serviceType = "generateObject"
               THEN {[schema |-> "prdSchema"]} ELSE {EmptyObject}}

Usage == [inputTokens |-> 10, outputTokens |-> 20]

\* what a provider function resolves to
ProviderResponses(serviceType) ==
    LET payload ==
            CASE serviceType = "generateText" -> [text |-> "Main provider response"]
              [] serviceType = "generateObject" -> [object |-> [tasks |-> <<>>]]
              [] OTHER -> [textStream |-> "stream"]
    IN  {payload, Spread(payload, [usage |-> Usage])}

ProviderError(message, status) ==
    [message |-> message, status |-> status, dataErrorMessage |-> <<>>,
     errorErrorMessage |-> <<>>, responseBody |-> <<>>, origin |-> 0]

\* what a provider function rejects with
ProviderErrors ==
    {ProviderError(<<"Rate", "limit">>, NoStatus),
     ProviderError(<<"Internal", "failure">>, 503),
     ProviderError(<<"Too", "many", "requests">>, 429),
     ProviderError(<<"Bad", "request">>, 400),
     ProviderError(<<"Main", "provider", "failed">>, NoStatus),
     [ProviderError(<<"AI_APICallError">>, 400) EXCEPT
          !.dataErrorMessage = <<"Invalid", "model", "id">>]}

\* what the backend call of the OpenAI adapter (chat.completions.create) rejects with
BackendErrors ==
    {ProviderError(<<"Tools", "are", "not", "supported">>, 400),
     ProviderError(<<"Internal", "failure">>, 503),
     ProviderError(<<"Rate", "limit">>, 429)}

----------------------------------------------------------------------------
(* The state machine *)

NoProbe == [fn |-> "none", arg |-> Undefined, out |-> <<>>]

NoCalls == <<>>

\* no configuration file, and no access to it
NoProject == [config |-> <<>>, reads |-> 0, writes |-> 0]

\* the tasks file of the project, absent
NoTasksFile == <<>>

Init ==
    /\ project = NoProject
    /\ tasksFile = NoTasksFile
    /\ silentMode = FALSE
    /\ env \in Envs
    /\ call = IdleCall
    /\ callCount = 0
    /\ usageLog = <<>>
    /\ outcomes = <<>>
    /\ probe = NoProbe
    /\ calls = NoCalls

\* a caller enters one of the three service functions
BeginCall ==
    /\ call.pc = "idle"
    /\ callCount < MaxCalls
    /\ \E serviceType \in ServiceTypes :
         \E params \in ParamInputs(serviceType) :
            call' = StartCall(env, callCount + 1, serviceType, params)
    /\ callCount' = callCount + 1
    /\ outcomes' = outcomes \o OutcomeOf(call')
    /\ UNCHANGED <<env, usageLog, probe, calls, project, tasksFile, silentMode>>

\* the pending provider invocation resolves
ProviderResolves ==
    /\ call.pc = "calling"
    /\ \E providerResponse \in ProviderResponses(call.serviceType) :
         /\ call' = RunnerSuccess(env, ExecutorReturn(call), providerResponse)
         /\ usageLog' = usageLog \o UsageRecordsOf(call')
    /\ outcomes' = outcomes \o OutcomeOf(call')
    /\ UNCHANGED <<env, callCount, probe, calls, project, tasksFile, silentMode>>

\* the pending provider invocation rejects
ProviderRejects ==
    /\ call.pc = "calling"
    /\ \E error \in ProviderErrors :
         call' = ExecutorCatch(call, [error EXCEPT !.origin = call.retries + 1])
    /\ outcomes' = outcomes \o OutcomeOf(call')
    /\ UNCHANGED <<env, callCount, usageLog, probe, calls, project, tasksFile, silentMode>>

\* the pending invocation is generateOpenAIObject and its backend call rejects: the
\* adapter catches the backend's error and throws its own
BackendRejects ==
    /\ call.pc = "calling"
    /\ call.serviceType = "generateObject"
    /\ \E error \in BackendErrors :
         call' = ExecutorCatch(
                     [call EXCEPT !.backendErrors =
                          Append(@, [attempt |-> call.retries + 1, error |-> error])],
                     [generateOpenAIObjectCatch(call.callParams[1], error)
                          EXCEPT !.origin = call.retries + 1])
    /\ outcomes' = outcomes \o OutcomeOf(call')
    /\ UNCHANGED <<env, callCount, usageLog, probe, calls, project, tasksFile, silentMode>>

\* the backoff timer fires
DelayElapses ==
    /\ call.pc = "delay"
    /\ call' = ExecutorLoop(call)
    /\ outcomes' = outcomes \o OutcomeOf(call')
    /\ UNCHANGED <<env, callCount, usageLog, probe, calls, project, tasksFile, silentMode>>

\* the promise of the call has settled and its caller has taken the outcome
CallSettles ==
    /\ call.pc = "done"
    /\ call' = IdleCall
    /\ UNCHANGED <<env, callCount, usageLog, outcomes, probe, calls, project, tasksFile, silentMode>>

Next ==
    \/ BeginCall
    \/ ProviderResolves
    \/ ProviderRejects
    \/ BackendRejects
    \/ DelayElapses
    \/ CallSettles

Spec == Init /\ [][Next]_vars

\* the pending provider invocation ends, one way or the other
ProviderSettles ==
    \/ ProviderResolves
    \/ ProviderRejects
    \/ BackendRejects

\* the service calls of one process whose provider invocations and backoff delays
\* all end, and whose callers take the outcome of a call that has settled
\* a project set up so that every call reaches its provider
FairInit == Init /\ env.models = DefaultModels /\ env.secrets # EmptyObject

FairSpec ==
    /\ FairInit
    /\ [][Next]_vars
    /\ WF_vars(ProviderSettles)
    /\ WF_vars(DelayElapses)
    /\ WF_vars(CallSettles)

----------------------------------------------------------------------------
(* Service calls in flight at the same time: each await of a call (the provider
   invocation, the backoff timer) lets the steps of the other calls run *)

Slots == 1..MaxInFlight

\* a project with all three roles configured and the API key set
ConcEnvs ==
    {e \in Envs : /\ e.models = DefaultModels
                  /\ "OPENAI_API_KEY" \in DOMAIN e.secrets
                  /\ ~e.telemetryFault}

ConcParamInputs ==
    {[role |-> r, prompt |-> "Test", commandName |-> "parse-prd"] :
        r \in {"main", "research"}}

ConcProviderErrors ==
    {ProviderError(<<"Rate", "limit">>, NoStatus),
     ProviderError(<<"Bad", "request">>, 400)}

Locals_sharedRetries(cs, i) ==
    [cs[i] EXCEPT !.retries =
         IF \E j \in DOMAIN cs : cs[j].retries > cs[i].retries
         THEN cs[i].retries + 1 ELSE cs[i].retries]

\* the activation of call i: its parameters and its locals (retries of line 365,
\* providerName, modelId and callParams of lines 461-562)
Locals(cs, i) == cs[i]

ConcInit ==
    /\ project = NoProject
    /\ tasksFile = NoTasksFile
    /\ silentMode = FALSE
    /\ env \in ConcEnvs
    /\ calls = [i \in Slots |-> IdleCall]
    /\ usageLog = <<>>
    /\ call = IdleCall
    /\ callCount = 0
    /\ outcomes = <<>>
    /\ probe = NoProbe

ConcBeginCall ==
    /\ \E i \in Slots :
         /\ calls[i].pc = "idle"
         /\ \E params \in ConcParamInputs :
              calls' = [calls EXCEPT ![i] = StartCall(env, i, "generateText", params)]
    /\ UNCHANGED <<env, usageLog, call, callCount, outcomes, probe, project, tasksFile, silentMode>>

ConcProviderResolves ==
    /\ \E i \in Slots :
         /\ calls[i].pc = "calling"
         /\ \E providerResponse \in ProviderResponses(calls[i].serviceType) :
              /\ calls' = [calls EXCEPT ![i] =
                              RunnerSuccess(env, ExecutorReturn(Locals(calls, i)),
                                            providerResponse)]
              /\ usageLog' = usageLog \o UsageRecordsOf(calls'[i])
    /\ UNCHANGED <<env, call, callCount, outcomes, probe, project, tasksFile, silentMode>>

ConcProviderRejects ==
    /\ \E i \in Slots :
         /\ calls[i].pc = "calling"
         /\ \E error \in ConcProviderErrors :
              calls' = [calls EXCEPT ![i] =
                           ExecutorCatch(Locals(calls, i),
                                         [error EXCEPT !.origin = calls[i].retries + 1])]
    /\ UNCHANGED <<env, usageLog, call, callCount, outcomes, probe, project, tasksFile, silentMode>>

ConcDelayElapses ==
    /\ \E i \in Slots :
         /\ calls[i].pc = "delay"
         /\ calls' = [calls EXCEPT ![i] = ExecutorLoop(Locals(calls, i))]
    /\ UNCHANGED <<env, usageLog, call, callCount, outcomes, probe, project, tasksFile, silentMode>>

ConcNext ==
    \/ ConcBeginCall
    \/ ConcProviderResolves
    \/ ConcProviderRejects
    \/ ConcDelayElapses

ConcSpec == ConcInit /\ [][ConcNext]_vars

----------------------------------------------------------------------------
(* Credential resolution on its own: _resolveApiKey applied to a provider name *)

\* provider names a role can be configured with, in the lower case the runner passes
ProviderNames == {"openai", "ollama", "anthropic", "perplexity"}

KeyInit ==
    /\ project = NoProject
    /\ tasksFile = NoTasksFile
    /\ silentMode = FALSE
    /\ env \in Envs
    /\ probe = NoProbe
    /\ call = IdleCall
    /\ callCount = 0
    /\ usageLog = <<>>
    /\ outcomes = <<>>
    /\ calls = NoCalls

ResolveApiKey ==
    /\ probe.fn = "none"
    /\ \E providerName \in ProviderNames :
         probe' = [fn |-> "_resolveApiKey", arg |-> providerName,
                   out |-> <<_resolveApiKey(env, providerName)>>]
    /\ UNCHANGED <<env, call, callCount, usageLog, outcomes, calls, project, tasksFile, silentMode>>

KeyNext == ResolveApiKey

KeySpec == KeyInit /\ [][KeyNext]_vars

----------------------------------------------------------------------------
(* The telemetry recorder on its own: logAiUsage applied to the usage of one call *)

\* the providers and models a usage record is asked for: in the pricing table or not
CostProviders == {"openai", "anthropic"}

CostModelIds == {"gpt-4o", "gpt-4o-mini", "gemini-2.5-flash-preview-05-20"}

MillionTokens == 1000000

\* token counts a provider reports; NoCount when it reports none
TokenCounts == {NoCount, 1, 3, MillionTokens}

CostInit ==
    /\ project = NoProject
    /\ tasksFile = NoTasksFile
    /\ silentMode = FALSE
    /\ env \in Envs
    /\ probe = NoProbe
    /\ call = IdleCall
    /\ callCount = 0
    /\ usageLog = <<>>
    /\ outcomes = <<>>
    /\ calls = NoCalls

LogAiUsage ==
    /\ probe.fn = "none"
    /\ \E providerName \in CostProviders, modelId \in CostModelIds,
          inputTokens \in TokenCounts, outputTokens \in TokenCounts :
         LET p == [userId |-> getUserId(env), commandName |-> "parse-prd",
                   providerName |-> providerName, modelId |-> modelId,
                   inputTokens |-> inputTokens, outputTokens |-> outputTokens,
                   outputType |-> "cli"]
         IN  probe' = [fn |-> "logAiUsage", arg |-> p,
                       out |-> <<AwaitLogAiUsage(p, env.telemetryFault)>>]
    /\ UNCHANGED <<env, call, callCount, usageLog, outcomes, calls, project, tasksFile, silentMode>>

CostNext == LogAiUsage

CostSpec == CostInit /\ [][CostNext]_vars

----------------------------------------------------------------------------
(* JSON values: an object, an array or a primitive value, told apart by kind *)

JObject(fields) == [kind |-> "object", fields |-> fields, items |-> <<>>, value |-> ""]

JArray(items) == [kind |-> "array", fields |-> EmptyObject, items |-> items, value |-> ""]

JValue(value) == [kind |-> "value", fields |-> EmptyObject, items |-> <<>>, value |-> value]

\* JSON schemas a caller hands over: without any keyword a backend rejects, with the
\* dialect marker at the top, with an exclusive bound inside a property, and with an
\* exclusive bound inside an array
Schemas ==
    {JObject([type |-> JValue("object"),
              properties |-> JObject([id |-> JObject([type |-> JValue("integer"),
                                                      minimum |-> JValue("1")])])]),
     JObject(("$schema" :> JValue("http://json-schema.org/draft-07/schema#"))
             @@ [type |-> JValue("object"), required |-> JArray(<<JValue("id")>>)]),
     JObject([type |-> JValue("object"),
              properties |-> JObject([id |-> JObject([type |-> JValue("integer"),
                                                      exclusiveMinimum |-> JValue("0")])])]),
     JObject([anyOf |-> JArray(<<JObject([type |-> JValue("number"),
                                          exclusiveMaximum |-> JValue("10")]),
                                 JObject([type |-> JValue("null")])>>)])}

----------------------------------------------------------------------------
(* The OpenAI adapter on its own: one adapter function applied to a request, with
   what its backend call settles with *)

AdapterMessages == {<<>>, <<[role |-> "user", content |-> "Test"]>>}

TextRequests ==
    [apiKey : {Undefined, "mock-openai-key"}, modelId : {Undefined, "gpt-4o"},
     messages : AdapterMessages, maxTokens : {100000}, temperature : {2},
     baseUrl : {Undefined}]

ObjectRequests ==
    [apiKey : {Undefined, "mock-openai-key"}, modelId : {Undefined, "gpt-4o"},
     messages : AdapterMessages, maxTokens : {100000}, temperature : {2},
     baseUrl : {Undefined},
     schema : {<<>>} \cup {<<schema>> : schema \in Schemas},
     objectName : {"", "generated_object"}]

Settles(result) ==
    [rejects |-> FALSE, error |-> NewError(<<>>), result |-> result, response |-> result]

Fails(error) ==
    [rejects |-> TRUE, error |-> error, result |-> Undefined, response |-> Undefined]

\* what the backend rejects a request with: the credentials, the model, or a
\* transient condition
AdapterBackendErrors ==
    {ProviderError(<<"Incorrect", "API", "key", "provided">>, 401),
     ProviderError(<<"The", "model", "does", "not", "exist">>, 404)}

TextResult(text) == [text |-> text, usage |-> [promptTokens |-> 10, completionTokens |-> 20]]

TextBackends ==
    {Fails(error) : error \in AdapterBackendErrors}
    \cup {Settles(TextResult(text)) : text \in {" Hello ", "", " "}}

StreamBackends ==
    {Fails(error) : error \in AdapterBackendErrors} \cup {Settles("stream")}

ToolCall(name, arguments) == [function |-> [name |-> name, arguments |-> arguments]]

Completion(toolCalls, usage) ==
    [choices |-> <<[message |-> [tool_calls |-> toolCalls]]>>, usage |-> usage]

ObjectBackends ==
    {Fails(error) : error \in AdapterBackendErrors \cup BackendErrors}
    \cup {Settles(response) : response \in
            {[choices |-> <<>>, usage |-> <<>>],
             Completion(<<>>, <<>>),
             Completion(<<ToolCall("generated_object", "{\"tasks\": []}")>>,
                        <<[prompt_tokens |-> 10, completion_tokens |-> 20]>>),
             Completion(<<ToolCall("generated_object", "{}")>>, <<>>),
             Completion(<<ToolCall("generated_object", "")>>, <<>>),
             Completion(<<ToolCall("generated_object", "tasks:")>>, <<>>),
             Completion(<<ToolCall("other_tool", "{\"tasks\": []}")>>, <<>>),
             Completion(<<ToolCall("other_tool", "{}"),
                          ToolCall("generated_object", "{\"tasks\": []}")>>, <<>>)}}

AdapterInit ==
    /\ project = NoProject
    /\ tasksFile = NoTasksFile
    /\ silentMode = FALSE
    /\ env \in ConcEnvs
    /\ probe = NoProbe
    /\ call = IdleCall
    /\ callCount = 0
    /\ usageLog = <<>>
    /\ outcomes = <<>>
    /\ calls = NoCalls

GenerateOpenAIText ==
    /\ probe.fn = "none"
    /\ \E params \in TextRequests, backend \in TextBackends :
         probe' = [fn |-> "generateOpenAIText",
                   arg |-> [params |-> params, backend |-> backend],
                   out |-> <<generateOpenAIText(params, backend)>>]
    /\ UNCHANGED <<env, call, callCount, usageLog, outcomes, calls, project, tasksFile, silentMode>>

StreamOpenAIText ==
    /\ probe.fn = "none"
    /\ \E params \in TextRequests, backend \in StreamBackends :
         probe' = [fn |-> "streamOpenAIText",
                   arg |-> [params |-> params, backend |-> backend],
                   out |-> <<streamOpenAIText(params, backend)>>]
    /\ UNCHANGED <<env, call, callCount, usageLog, outcomes, calls, project, tasksFile, silentMode>>

GenerateOpenAIObject ==
    /\ probe.fn = "none"
    /\ \E params \in ObjectRequests, backend \in ObjectBackends :
         probe' = [fn |-> "generateOpenAIObject",
                   arg |-> [params |-> params, backend |-> backend],
                   out |-> <<generateOpenAIObject(params, backend)>>]
    /\ UNCHANGED <<env, call, callCount, usageLog, outcomes, calls, project, tasksFile, silentMode>>

AdapterNext ==
    \/ GenerateOpenAIText
    \/ StreamOpenAIText
    \/ GenerateOpenAIObject

AdapterSpec == AdapterInit /\ [][AdapterNext]_vars

----------------------------------------------------------------------------
(* Model configuration operations made one after the other on one project *)

\* the configuration file of the project
ProjectConfig ==
    [models |-> DefaultModels,
     global |-> [logLevel |-> "debug", defaultSubtasks |-> 5,
                 projectName |-> "Taskmaster", userId |-> "1234567890"]]

\* the same file with a base URL set for the main role
ProjectConfigWithBaseUrl ==
    [ProjectConfig EXCEPT
         !.models.main = Spread(@, [baseUrl |-> "http://localhost:11434/api"])]

Projects ==
    {NoProject,
     [NoProject EXCEPT !.config = <<ProjectConfig>>],
     [NoProject EXCEPT !.config = <<ProjectConfigWithBaseUrl>>]}

ProjectRoots == {Undefined, "/project"}

ModelIdInputs == {"", "gpt-4o", "gpt-4o-mini", "llama3"}

ProviderHints == {Undefined, "ollama", "openrouter"}

ModelsInit ==
    /\ project \in Projects
    /\ tasksFile = NoTasksFile
    /\ silentMode = FALSE
    /\ env \in ConcEnvs
    /\ probe = NoProbe
    /\ call = IdleCall
    /\ callCount = 0
    /\ usageLog = <<>>
    /\ outcomes = <<>>
    /\ calls = NoCalls

GetModelConfiguration ==
    /\ callCount < MaxModelOps
    /\ \E projectRoot \in ProjectRoots :
         LET options == [projectRoot |-> projectRoot]
             done == getModelConfiguration(project, options)
         IN  /\ probe' = [fn |-> "getModelConfiguration",
                          arg |-> [options |-> options, before |-> project],
                          out |-> <<done.result>>]
             /\ project' = done.project
    /\ callCount' = callCount + 1
    /\ UNCHANGED <<env, call, usageLog, outcomes, calls, tasksFile, silentMode>>

GetAvailableModelsList ==
    /\ callCount < MaxModelOps
    /\ \E projectRoot \in ProjectRoots :
         LET options == [projectRoot |-> projectRoot]
             done == getAvailableModelsList(project, options)
         IN  /\ probe' = [fn |-> "getAvailableModelsList",
                          arg |-> [options |-> options, before |-> project],
                          out |-> <<done.result>>]
             /\ project' = done.project
    /\ callCount' = callCount + 1
    /\ UNCHANGED <<env, call, usageLog, outcomes, calls, tasksFile, silentMode>>

SetModel ==
    /\ callCount < MaxModelOps
    /\ \E role \in SettableRoles \cup {"admin"}, modelId \in ModelIdInputs,
          projectRoot \in ProjectRoots, providerHint \in ProviderHints,
          writeOk \in BOOLEAN :
         LET options == [projectRoot |-> projectRoot, providerHint |-> providerHint]
             done == setModel(project, role, modelId, options, writeOk)
         IN  /\ probe' = [fn |-> "setModel",
                          arg |-> [options |-> options, before |-> project,
                                   role |-> role, modelId |-> modelId],
                          out |-> <<done.result>>]
             /\ project' = done.project
    /\ callCount' = callCount + 1
    /\ UNCHANGED <<env, call, usageLog, outcomes, calls, tasksFile, silentMode>>

ModelsNext ==
    \/ GetModelConfiguration
    \/ GetAvailableModelsList
    \/ SetModel

ModelsSpec == ModelsInit /\ [][ModelsNext]_vars

----------------------------------------------------------------------------
(* Error-message extraction on its own: _extractErrorMessage applied to one error *)

BodyShapes ==
    {<<>>,
     <<[json |-> FALSE, errorMessage |-> <<>>]>>,
     <<[json |-> TRUE, errorMessage |-> <<>>]>>,
     <<[json |-> TRUE, errorMessage |-> <<"Body", "message">>]>>}

\* the errors a provider call can throw: objects with any of the four shapes, strings,
\* and null
ErrorShapes ==
    [message : {<<>>, <<"Top", "message">>},
     status : {NoStatus},
     dataErrorMessage : {<<>>, <<"Data", "message">>},
     errorErrorMessage : {<<>>, <<"Error", "message">>},
     responseBody : BodyShapes,
     origin : {0}]
    \cup {[text |-> <<"Plain", "string">>], [text |-> <<>>], EmptyObject}

ExtractInit ==
    /\ project = NoProject
    /\ tasksFile = NoTasksFile
    /\ silentMode = FALSE
    /\ env \in Envs
    /\ probe = NoProbe
    /\ call = IdleCall
    /\ callCount = 0
    /\ usageLog = <<>>
    /\ outcomes = <<>>
    /\ calls = NoCalls

ExtractErrorMessage ==
    /\ probe.fn = "none"
    /\ \E error \in ErrorShapes :
         probe' = [fn |-> "_extractErrorMessage", arg |-> error,
                   out |-> <<_extractErrorMessage(error)>>]
    /\ UNCHANGED <<env, call, callCount, usageLog, outcomes, calls, project, tasksFile, silentMode>>

ExtractNext == ExtractErrorMessage

ExtractSpec == ExtractInit /\ [][ExtractNext]_vars

----------------------------------------------------------------------------
(* Schema cleaning on its own: cleanJsonSchema applied to one JSON value *)

RECURSIVE cleanJsonSchema_skipArrays(_)
cleanJsonSchema_skipArrays(schema) ==
    IF schema.kind = "object"
    THEN LET kept == DOMAIN schema.fields
                     \ {"$schema", "exclusiveMinimum", "exclusiveMaximum"}
         IN  JObject([key \in kept |-> cleanJsonSchema_skipArrays(schema.fields[key])])
    ELSE schema

RECURSIVE cleanJsonSchema(_)
\* a value that is no object is returned as it is, an array is mapped item by item,
\* and an object is rebuilt in a new object from the keys that are none of the three
\* keywords, each value cleaned in turn
cleanJsonSchema(schema) ==
    CASE schema.kind = "value" -> schema
      [] schema.kind = "array" ->
           JArray([i \in DOMAIN schema.items |-> cleanJsonSchema(schema.items[i])])
      [] OTHER ->
           LET kept == DOMAIN schema.fields
                       \ {"$schema", "exclusiveMinimum", "exclusiveMaximum"}
           IN  JObject([key \in kept |-> cleanJsonSchema(schema.fields[key])])

\* one call as the caller sees it: the value returned, and the argument after the
\* call. The function assigns to newSchema only, so the argument is what it was.
CallCleanJsonSchema(schema) ==
    [returned |-> cleanJsonSchema(schema), schema |-> schema]

SchemaKeys == {"$schema", "exclusiveMinimum", "exclusiveMaximum", "type", "minimum"}

\* objects of primitive values under every choice of keys
FlatSchemas == {JObject([key \in keys |-> JValue("0")]) : keys \in SUBSET SchemaKeys}

PropertySchemas ==
    {JObject([key \in keys |-> JValue("0")]) :
        keys \in {{"type"}, {"type", "exclusiveMinimum"}, {"$schema", "type"},
                  {"exclusiveMaximum"}}}

\* objects nested in objects and in arrays, an array in an array, a keyword whose
\* value is an object, and values that are no objects
NestedSchemas ==
    {JObject([properties |-> JObject([id |-> a]),
              anyOf |-> JArray(<<b, JValue("null")>>)]) :
        a \in PropertySchemas, b \in PropertySchemas}
    \cup {JArray(<<JArray(<<a>>), a>>) : a \in PropertySchemas}
    \cup {JObject(("$schema" :> JObject([type |-> JValue("string")]))
                  @@ [type |-> JValue("object")]),
          JValue("string"), JValue("null"), JArray(<<>>)}

SchemaInputs == Schemas \cup FlatSchemas \cup NestedSchemas

SchemaInit ==
    /\ project = NoProject
    /\ tasksFile = NoTasksFile
    /\ silentMode = FALSE
    /\ env \in ConcEnvs
    /\ probe = NoProbe
    /\ call = IdleCall
    /\ callCount = 0
    /\ usageLog = <<>>
    /\ outcomes = <<>>
    /\ calls = NoCalls

CleanJsonSchema ==
    /\ probe.fn = "none"
    /\ \E schema \in SchemaInputs :
         probe' = [fn |-> "cleanJsonSchema", arg |-> schema,
                   out |-> <<CallCleanJsonSchema(schema)>>]
    /\ UNCHANGED <<env, call, callCount, usageLog, outcomes, calls, project, tasksFile, silentMode>>

SchemaNext == CleanJsonSchema

SchemaSpec == SchemaInit /\ [][SchemaNext]_vars

----------------------------------------------------------------------------
(* PRD parsing: one parsePRD call on a tasks file *)

\* the tasks file after writeJSON(tasksPath, { tasks })
TasksFileOf(tasks) == <<[valid |-> TRUE, tasks |-> tasks]>>

\* Math.max(...existingTasks.map((t) => t.id || 0))
MaxId(tasks) ==
    CHOOSE id \in {tasks[i].id : i \in DOMAIN tasks} :
        \A i \in DOMAIN tasks : tasks[i].id <= id

\* the tasks read in append mode and the id of the first new task
ReadExisting(file, append) ==
    IF file # <<>> /\ append /\ file[1].valid /\ file[1].tasks # <<>>
    THEN [existingTasks |-> file[1].tasks, nextId |-> MaxId(file[1].tasks) + 1]
    ELSE [existingTasks |-> <<>>, nextId |-> 1]

OverwriteMessage == <<"Output", "file", "already", "exists.">>

EmptyPrdMessage == <<"Input", "file", "is", "empty", "or", "could", "not", "be", "read.">>

PrdMissingMessage == <<"ENOENT:", "no", "such", "file", "or", "directory">>

UnexpectedStructureMessage ==
    <<"AI", "service", "returned", "unexpected", "data", "structure", "after",
      "validation.">>

\* the object that holds the tasks: mainResult itself or mainResult.object, if any
GeneratedData(response) ==
    IF response.mainResult = <<>>
    THEN <<>>
    ELSE LET mainResult == response.mainResult[1]
         IN  IF "tasks" \in DOMAIN mainResult
             THEN <<mainResult>>
             ELSE IF "object" \in DOMAIN mainResult
                     /\ "tasks" \in DOMAIN mainResult.object
             THEN <<mainResult.object>>
             ELSE <<>>

ProcessedNewTasks_keepIds(tasks, nextId) ==
    [i \in DOMAIN tasks |->
        Spread(tasks[i],
               [status |-> "pending",
                priority |-> IF Truthy(Get(tasks[i], "priority"))
                             THEN tasks[i].priority ELSE "medium",
                dependencies |-> IF tasks[i].dependencies.kind = "array"
                                 THEN tasks[i].dependencies.items ELSE <<>>,
                subtasks |-> <<>>])]

\* the new tasks before their dependencies are remapped: numbered from nextId in the
\* order returned
ProcessedNewTasks(tasks, nextId) ==
    [i \in DOMAIN tasks |->
        Spread(tasks[i],
               [id |-> nextId + i - 1,
                status |-> "pending",
                priority |-> IF Truthy(Get(tasks[i], "priority"))
                             THEN tasks[i].priority ELSE "medium",
                dependencies |-> IF tasks[i].dependencies.kind = "array"
                                 THEN tasks[i].dependencies.items ELSE <<>>,
                subtasks |-> <<>>])]

\* taskMap.get(depId): the new id of the last returned task whose id is depId
TaskMapGet(tasks, nextId, depId) ==
    LET holders == {i \in DOMAIN tasks : tasks[i].id = depId}
    IN  IF holders = {}
        THEN <<>>
        ELSE <<nextId + (CHOOSE i \in holders : \A j \in holders : j <= i) - 1>>

\* findTaskById(existingTasks, id) || processedNewTasks.some((t) => t.id === id)
DependencyExists(existingTasks, processed, id) ==
    \/ \E i \in DOMAIN existingTasks : existingTasks[i].id = id
    \/ \E i \in DOMAIN processed : processed[i].id = id

RemapDependencies_selfAllowed(tasks, nextId, existingTasks, processed) ==
    [i \in DOMAIN processed |->
        LET mapped == [j \in DOMAIN processed[i].dependencies |->
                          TaskMapGet(tasks, nextId, processed[i].dependencies[j])]
            Kept(newDepId) ==
                /\ newDepId # <<>>
                /\ newDepId[1] <= processed[i].id
                /\ DependencyExists(existingTasks, processed, newDepId[1])
            kept == SelectSeq(mapped, Kept)
        IN  [processed[i] EXCEPT !.dependencies = [j \in DOMAIN kept |-> kept[j][1]]]]

\* each dependency is mapped through taskMap, and kept when it is mapped, lower than
\* the id of its task and the id of a task
RemapDependencies(tasks, nextId, existingTasks, processed) ==
    [i \in DOMAIN processed |->
        LET mapped == [j \in DOMAIN processed[i].dependencies |->
                          TaskMapGet(tasks, nextId, processed[i].dependencies[j])]
            Kept(newDepId) ==
                /\ newDepId # <<>>
                /\ newDepId[1] < processed[i].id
                /\ DependencyExists(existingTasks, processed, newDepId[1])
            kept == SelectSeq(mapped, Kept)
        IN  [processed[i] EXCEPT !.dependencies = [j \in DOMAIN kept |-> kept[j][1]]]]

ParseFailure_clearsFile(file, isMCP, message, requests, writes) ==
    [outcome |-> IF isMCP THEN "threw" ELSE "exited",
     message |-> message,
     file |-> TasksFileOf(<<>>),
     requests |-> requests,
     writes |-> writes + 1,
     result |-> <<>>]

\* the end of a failed call: the catch block exits the process in text mode and
\* throws the error again in JSON mode
ParseFailure(file, isMCP, message, requests, writes) ==
    [outcome |-> IF isMCP THEN "threw" ELSE "exited",
     message |-> message,
     file |-> file,
     requests |-> requests,
     writes |-> writes,
     result |-> <<>>]

\* parsePRD(prdPath, tasksPath, numTasks, options): file is the tasks file before the
\* call, prd the PRD file, service the outcome of generateObjectService if it is
\* called and filesOk whether generateTaskFiles succeeds if it is called
parsePRD(file, prd, options, service, filesOk) ==
    LET isMCP == options.isMCP
        read == ReadExisting(file, options.append)
        request == [role |-> "main", objectName |-> "tasks_data",
                    commandName |-> "parse-prd",
                    outputType |-> IF isMCP THEN "mcp" ELSE "cli",
                    nextId |-> read.nextId]
    IN  IF file # <<>> /\ ~options.append /\ ~options.force
        THEN ParseFailure(file, isMCP, OverwriteMessage, <<>>, 0)
        ELSE IF prd = <<>>
        THEN ParseFailure(file, isMCP, PrdMissingMessage, <<>>, 0)
        ELSE IF prd[1] = ""
        THEN ParseFailure(file, isMCP, EmptyPrdMessage, <<>>, 0)
        ELSE IF service.threw
        THEN ParseFailure(file, isMCP, service.message, <<request>>, 0)
        ELSE LET generatedData == GeneratedData(service.response)
             IN  IF generatedData = <<>> \/ generatedData[1].tasks.kind # "array"
                 THEN ParseFailure(file, isMCP, UnexpectedStructureMessage,
                                   <<request>>, 0)
                 ELSE LET tasks == generatedData[1].tasks.items
                          processed == ProcessedNewTasks(tasks, read.nextId)
                          processedNewTasks ==
                              RemapDependencies(tasks, read.nextId, read.existingTasks,
                                                processed)
                          finalTasks == IF options.append
                                        THEN read.existingTasks \o processedNewTasks
                                        ELSE processedNewTasks
                          written == TasksFileOf(finalTasks)
                      IN  IF ~filesOk
                          THEN ParseFailure(written, isMCP,
                                            <<"generateTaskFiles", "failed">>,
                                            <<request>>, 1)
                          ELSE [outcome |-> "returned",
                                message |-> <<>>,
                                file |-> written,
                                requests |-> <<request>>,
                                writes |-> 1,
                                result |-> <<[success |-> TRUE,
                                              telemetryData |->
                                                  service.response.telemetryData]>>]

\* the ids the AI gives to tasks and names in dependencies
AiIds == {1, 4}

AiDependencies == {JArray(<<>>), JArray(<<1>>), JArray(<<4, 1>>)}

\* a task as the AI returns it, the title telling its position in the answer
AiTask(position, id, dependencies) ==
    [id |-> id, title |-> <<"Task", position>>, dependencies |-> dependencies]

AiTaskLists ==
    {<<>>}
    \cup {<<AiTask(1, id, deps)>> : id \in AiIds, deps \in AiDependencies}
    \cup {<<AiTask(1, id1, deps1), AiTask(2, id2, deps2)>> :
            id1 \in AiIds, deps1 \in AiDependencies,
            id2 \in AiIds, deps2 \in AiDependencies}
    \cup {<<Spread(AiTask(1, 1, JValue("none")),
                   [status |-> "done", priority |-> "high",
                    subtasks |-> <<"subtask">>]),
            AiTask(2, 1, JArray(<<1, 1>>))>>}

ParseTelemetry == <<[commandName |-> "parse-prd", totalTokens |-> 30]>>

\* what generateObjectService does when called: it throws, or returns the tasks in
\* mainResult, in mainResult.object, or returns something else
ServiceOutcomes ==
    {[threw |-> TRUE, message |-> <<"AI", "service", "failed">>]}
    \cup {[threw |-> FALSE,
           response |-> [mainResult |-> <<[tasks |-> JArray(tasks)]>>,
                         telemetryData |-> ParseTelemetry]] : tasks \in AiTaskLists}
    \cup {[threw |-> FALSE,
           response |-> [mainResult |-> mainResult, telemetryData |-> ParseTelemetry]] :
            mainResult \in {<<>>,
                            <<[object |-> [tasks |-> JArray(<<AiTask(1, 4, JArray(<<1>>))>>)]]>>,
                            <<[text |-> "no tasks"]>>,
                            <<[object |-> [text |-> "no tasks"]]>>,
                            <<[tasks |-> JValue("none")]>>}}

PrdFiles == {<<>>, <<"">>, <<"Build a todo app">>}

ParseOptions == [force : BOOLEAN, append : BOOLEAN, isMCP : BOOLEAN]

\* a task of the tasks file
StoredTask(id, title, status, dependencies) ==
    [id |-> id, title |-> title, status |-> status, priority |-> "medium",
     dependencies |-> dependencies, subtasks |-> <<>>]

\* the tasks file before the call: none, one that holds no task list, one without
\* tasks, one as parsePRD writes it, and one whose task 2 was removed since
TasksFiles ==
    {NoTasksFile,
     <<[valid |-> FALSE, tasks |-> <<>>]>>,
     TasksFileOf(<<>>),
     TasksFileOf(<<StoredTask(1, <<"Task", 1>>, "pending", <<>>),
                   StoredTask(2, <<"Task", 2>>, "pending", <<1>>)>>),
     TasksFileOf(<<StoredTask(1, <<"Old", 1>>, "done", <<>>),
                   StoredTask(3, <<"Old", 3>>, "pending", <<1>>)>>)}

ParseInit ==
    /\ project = NoProject
    /\ tasksFile \in TasksFiles
    /\ silentMode = FALSE
    /\ env \in ConcEnvs
    /\ probe = NoProbe
    /\ call = IdleCall
    /\ callCount = 0
    /\ usageLog = <<>>
    /\ outcomes = <<>>
    /\ calls = NoCalls

\* the AI service is an input of a call only when the call reaches it
ServiceInputs(file, prd, options) ==
    LET failing == CHOOSE service \in ServiceOutcomes : service.threw
    IN  IF parsePRD(file, prd, options, failing, TRUE).requests = <<>>
        THEN {failing}
        ELSE ServiceOutcomes

\* generateTaskFiles is an input of a call only when the call reaches it
TaskFilesInputs(file, prd, options, service) ==
    IF parsePRD(file, prd, options, service, TRUE).outcome = "returned"
    THEN BOOLEAN
    ELSE {TRUE}

\* one call of parsePRD
ParsePRD ==
    /\ probe.fn = "none"
    /\ \E prd \in PrdFiles, options \in ParseOptions :
         \E service \in ServiceInputs(tasksFile, prd, options) :
           \E filesOk \in TaskFilesInputs(tasksFile, prd, options, service) :
             LET done == parsePRD(tasksFile, prd, options, service, filesOk)
             IN  /\ probe' = [fn |-> "parsePRD",
                              arg |-> [before |-> tasksFile, prd |-> prd,
                                       options |-> options,
                                       service |-> IF done.requests = <<>>
                                                   THEN <<>> ELSE <<service>>],
                              out |-> <<done>>]
                 /\ tasksFile' = done.file
    /\ callCount' = callCount + 1
    /\ UNCHANGED <<env, call, usageLog, outcomes, calls, project, silentMode>>

ParseNext == ParsePRD

ParseSpec == ParseInit /\ [][ParseNext]_vars

----------------------------------------------------------------------------
(* The MCP direct function for models: modelsDirect calls in flight at the same time *)

\* the core function a call runs and its outcome: args.listAvailableModels, then
\* args.setMain, args.setResearch and args.setFallback, and else the configuration
DirectCore(proj, args, writeOk) ==
    LET projectRoot == Get(args, "projectRoot")
        options == [projectRoot |-> projectRoot,
                    providerHint |-> IF Get(args, "ollama") = "true"
                                     THEN "ollama" ELSE Undefined]
    IN  IF Get(args, "listAvailableModels") = "true"
        THEN getAvailableModelsList(proj, [projectRoot |-> projectRoot])
        ELSE IF Truthy(Get(args, "setMain"))
        THEN setModel(proj, "main", args.setMain, options, writeOk)
        ELSE IF Truthy(Get(args, "setResearch"))
        THEN setModel(proj, "research", args.setResearch, options, writeOk)
        ELSE IF Truthy(Get(args, "setFallback"))
        THEN setModel(proj, "fallback", args.setFallback, options, writeOk)
        ELSE getModelConfiguration(proj, [projectRoot |-> projectRoot])

CoreFaultMessage == <<"logger", "failed">>

\* a call up to its await: silent mode is enabled and the core function runs; fault
\* tells that the core function throws, at its first report, before it reads anything
DirectBegin(proj, args, writeOk, fault) ==
    LET done == DirectCore(proj, args, writeOk)
    IN  [silentMode |-> TRUE,
         project |-> IF fault THEN proj ELSE done.project,
         settled |-> IF fault
                     THEN [threw |-> TRUE, message |-> CoreFaultMessage, result |-> <<>>]
                     ELSE [threw |-> FALSE, message |-> <<>>, result |-> <<done.result>>]]

DirectEnd_disableOnSuccess(mode, settled) ==
    [silentMode |-> IF settled.threw THEN mode ELSE FALSE,
     result |-> IF settled.threw
                THEN Failure("DIRECT_FUNCTION_ERROR", settled.message)
                ELSE settled.result[1]]

\* a call from its await on: the finally block disables silent mode, and the result
\* of the core function is returned, or the error it threw is turned into a result
DirectEnd(mode, settled) ==
    [silentMode |-> FALSE,
     result |-> IF settled.threw
                THEN Failure("DIRECT_FUNCTION_ERROR", settled.message)
                ELSE settled.result[1]]

IdleDirectCall == [pc |-> "idle", args |-> EmptyObject, settled |-> <<>>, result |-> <<>>]

DirectArgs ==
    {[projectRoot |-> "/project"],
     [projectRoot |-> "/project", listAvailableModels |-> "true"],
     [projectRoot |-> "/project", listAvailableModels |-> "true", setMain |-> "gpt-4o"],
     [projectRoot |-> "/project", setMain |-> "gpt-4o-mini"],
     [projectRoot |-> "/project", setMain |-> "llama3", ollama |-> "true"],
     [projectRoot |-> "/project", setResearch |-> "gpt-4o"],
     [projectRoot |-> "/project", setFallback |-> "llama3"]}

DirectInit ==
    /\ project \in Projects
    /\ tasksFile = NoTasksFile
    /\ silentMode = FALSE
    /\ env \in ConcEnvs
    /\ calls = [i \in Slots |-> IdleDirectCall]
    /\ probe = NoProbe
    /\ call = IdleCall
    /\ callCount = 0
    /\ usageLog = <<>>
    /\ outcomes = <<>>

\* a modelsDirect call starts in a slot that holds no call in flight
ModelsDirectBegins(i) ==
    /\ calls[i].pc # "awaiting"
    /\ callCount < MaxDirectCalls
    /\ \E args \in DirectArgs, writeOk \in BOOLEAN, fault \in BOOLEAN :
         LET begun == DirectBegin(project, args, writeOk, fault)
         IN  /\ silentMode' = begun.silentMode
             /\ project' = begun.project
             /\ calls' = [calls EXCEPT ![i] = [pc |-> "awaiting", args |-> args,
                                               settled |-> <<begun.settled>>,
                                               result |-> <<>>]]
    /\ callCount' = callCount + 1
    /\ UNCHANGED <<env, call, usageLog, outcomes, probe, tasksFile>>

\* the call in slot i resumes after its await and returns
ModelsDirectReturns(i) ==
    /\ calls[i].pc = "awaiting"
    /\ LET ended == DirectEnd(silentMode, calls[i].settled[1])
       IN  /\ silentMode' = ended.silentMode
           /\ calls' = [calls EXCEPT ![i].pc = "returned",
                                     ![i].result = <<ended.result>>]
    /\ UNCHANGED <<env, call, callCount, usageLog, outcomes, probe, project, tasksFile>>

DirectNext ==
    \E i \in Slots :
       \/ ModelsDirectBegins(i)
       \/ ModelsDirectReturns(i)

DirectSpec == DirectInit /\ [][DirectNext]_vars

----------------------------------------------------------------------------
(* The provider request on its own: the runner's setup applied to one call *)

\* parameters a caller passes besides those the runner destructures
ExtraParams ==
    {EmptyObject,
     [topP |-> 1],
     [apiKey |-> "caller-key"],
     [modelId |-> "caller-model"],
     [maxTokens |-> 1],
     [temperature |-> 0],
     [messages |-> <<>>],
     [baseUrl |-> "http://caller.example"]}

RequestParamInputs(serviceType) ==
    {Spread(Spread(Spread([role |-> r, prompt |-> "Test", commandName |-> "parse-prd"],
                          o), sc), extra) :
        r \in Roles,
        o \in Optional("systemPrompt", {"System"}),
        sc \in IF serviceType = "generateObject"
               THEN {[schema |-> "prdSchema", objectName |-> "tasks_data"]}
               ELSE {EmptyObject},
        extra \in ExtraParams}

RequestInit ==
    /\ project = NoProject
    /\ tasksFile = NoTasksFile
    /\ silentMode = FALSE
    /\ env \in Envs
    /\ probe = NoProbe
    /\ call = IdleCall
    /\ callCount = 0
    /\ usageLog = <<>>
    /\ outcomes = <<>>
    /\ calls = NoCalls

\* the runner prepares the request of one call
BuildRequest ==
    /\ probe.fn = "none"
    /\ \E serviceType \in ServiceTypes :
         \E params \in RequestParamInputs(serviceType) :
            probe' = [fn |-> "RunnerSetup",
                      arg |-> [serviceType |-> serviceType, params |-> params],
                      out |-> <<RunnerSetup(env, serviceType, params)>>]
    /\ UNCHANGED <<env, call, callCount, usageLog, outcomes, calls, project, tasksFile,
                   silentMode>>

RequestNext == BuildRequest

RequestSpec == RequestInit /\ [][RequestNext]_vars

----------------------------------------------------------------------------
(* Properties of the retry executor *)

TransientPhrases ==
    {<<"rate", "limit">>, <<"overloaded">>,
     <<"service", "temporarily", "unavailable">>,
     <<"timeout">>, <<"network", "error">>}

\* a failure the specification calls retryable: its message names one of the
\* transient conditions, or its status is 429 or at least 500
Transient(error) ==
    LET lowerCaseMessage == toLowerCase(error.message)
    IN  \/ error.status = 429
        \/ error.status >= 500
        \/ \E phrase \in TransientPhrases : includes(lowerCaseMessage, phrase)

\* the positions of the events of one kind in the trace of the call
EventsOf(c, ev) == {i \in DOMAIN c.trace : c.trace[i].ev = ev}

\* the error the k-th provider invocation of the call failed with
ErrorOf(c, k) == c.errors[k]

ProviderFailed(c) == c.errors # <<>> /\ c.response = <<>>

C3_ExhaustionRethrowsLastError ==
    (/\ call.pc = "done"
     /\ ProviderFailed(call)
     /\ \A k \in DOMAIN call.errors : Transient(ErrorOf(call, k)))
    => /\ Invocations(call) = MAX_RETRIES + 1
       /\ Len(call.errors) = MAX_RETRIES + 1
       /\ call.thrown = <<ErrorOf(call, MAX_RETRIES + 1)>>
       /\ call.thrown[1].origin = MAX_RETRIES + 1

\* C3 witness: a call ended by three retryable failures
C3_Witness ==
    /\ call.pc = "done"
    /\ Len(call.errors) = 3
    /\ \A k \in DOMAIN call.errors : Transient(ErrorOf(call, k))
    /\ call.result.status = "error"

\* C4: the n-th backoff delay (n = 0 after the first failure) is 1000 * 2^n ms;
\* a delay directly follows a failed attempt and is directly followed by the next
\* attempt, so no delay precedes the first attempt and none follows the last failure.
C4_ExponentialBackoff ==
    /\ \A n \in 1..Len(Delays(call)) : Delays(call)[n] = 1000 * 2^(n - 1)
    /\ \A i \in EventsOf(call, "delay") :
         /\ i > 1
         /\ call.trace[i - 1].ev = "fail"
         /\ IF i = Len(call.trace)
            THEN call.pc = "delay"
            ELSE call.trace[i + 1].ev = "invoke"
    /\ call.trace # <<>> => call.trace[1] = Event("invoke", 1)
    /\ call.pc = "delay" <=>
         (call.trace # <<>> /\ call.trace[Len(call.trace)].ev = "delay")
    /\ call.pc = "calling" <=>
         (call.trace # <<>> /\ call.trace[Len(call.trace)].ev = "invoke")

\* C4 witness: a call that ended after waiting 1000 ms and then 2000 ms
C4_Witness ==
    /\ call.pc = "done"
    /\ Delays(call) = <<1000, 2000>>

\* the role whose configuration the runner reads
RoleRead(c) ==
    LET r == Get(c.params, "role") IN IF r \in Roles THEN r ELSE "main"

RoleUnconfigured(e, c) ==
    \/ e.models[RoleRead(c)].provider \in {Undefined, ""}
    \/ e.models[RoleRead(c)].modelId \in {Undefined, ""}

ProviderUnusable(e, c) ==
    LET provider == LowerWord(e.models[RoleRead(c)].provider)
    IN  \/ provider \notin DOMAIN PROVIDER_FUNCTIONS
        \/ c.serviceType \notin DOMAIN PROVIDER_FUNCTIONS[provider]

ApiKeyAbsent(e, c) ==
    LET provider == LowerWord(e.models[RoleRead(c)].provider)
    IN  /\ provider \in DOMAIN keyMap
        /\ keyMap[provider] \notin DOMAIN e.secrets

ConfigurationFailure(e, c) ==
    RoleUnconfigured(e, c) \/ ProviderUnusable(e, c) \/ ApiKeyAbsent(e, c)

\* C5: a call with a configuration failure (role without provider or model, provider
\* not registered or without the service type, required API key absent) has ended
\* in an error as soon as it has begun, with no provider invocation and no delay.
C5_ConfigFailuresNotRetried ==
    (call.pc # "idle" /\ ConfigurationFailure(env, call))
    => /\ call.pc = "done"
       /\ call.result.status = "error"
       /\ call.trace = <<>>
       /\ Invocations(call) = 0
       /\ Delays(call) = <<>>
       /\ call.retries = 0

\* C5 witness: a call that lacks nothing but the API key
C5_Witness ==
    /\ call.pc = "done"
    /\ ApiKeyAbsent(env, call)
    /\ ~RoleUnconfigured(env, call)
    /\ ~ProviderUnusable(env, call)
    /\ Truthy(Get(call.params, "prompt"))

----------------------------------------------------------------------------
(* Properties of the unified service runner *)

PromptMissing(c) == Get(c.params, "prompt") \in {Undefined, ""}

FailedWith(c, message) ==
    /\ c.pc = "done"
    /\ c.result.status = "error"
    /\ c.result.error[1].message = message

\* C6 as stated: a call without a prompt fails with the missing-prompt error before
\* any provider invocation, whatever else is wrong with it.
C6_AlwaysMissingPromptError ==
    (call.pc # "idle" /\ PromptMissing(call))
    => /\ FailedWith(call, MissingPromptMessage)
       /\ Invocations(call) = 0

\* C6 amended: for every service type a call without a prompt has ended in an error
\* as soon as it has begun, with no provider invocation, no delay and no retry; the
\* error is the missing-prompt error unless an earlier step (role configuration,
\* provider lookup, credential) has already failed.
C6_MissingPromptFailsBeforeProvider ==
    (call.pc # "idle" /\ PromptMissing(call))
    => /\ call.pc = "done"
       /\ call.result.status = "error"
       /\ call.trace = <<>>
       /\ Invocations(call) = 0
       /\ call.retries = 0
       /\ ~ConfigurationFailure(env, call) => FailedWith(call, MissingPromptMessage)

\* C6 witness: a structured-object call with an empty prompt and nothing else wrong
C6_Witness ==
    /\ call.serviceType = "generateObject"
    /\ "prompt" \in DOMAIN call.params
    /\ call.params.prompt = ""
    /\ ~ConfigurationFailure(env, call)
    /\ FailedWith(call, MissingPromptMessage)

\* C7: over the calls made so far no call has produced two usage records, and every
\* call that has produced one has ended successfully (a call in progress or ended in
\* an error has produced none).
C7_OneUsageRecordPerSuccess ==
    /\ \A i, j \in DOMAIN usageLog : usageLog[i] = usageLog[j] => i = j
    /\ \A i \in DOMAIN usageLog :
         /\ usageLog[i] \in DOMAIN outcomes
         /\ outcomes[usageLog[i]] = "ok"
    /\ Len(outcomes) = IF call.pc \in {"calling", "delay"} THEN callCount - 1 ELSE callCount

\* C7 witness: a failed first call, then a call that succeeded on its third attempt
\* and produced the only usage record
C7_Witness ==
    /\ outcomes = <<"error", "ok">>
    /\ usageLog = <<2>>
    /\ call.id = 2
    /\ Invocations(call) = 3

\* the payload of the provider's response for the service type of the call
IsPayload(c, mainResult) ==
    CASE c.serviceType = "generateText" -> mainResult = c.response[1].text
      [] c.serviceType = "generateObject" -> mainResult = c.response[1].object
      [] OTHER -> mainResult = c.response[1]

Succeeded(c) == c.pc = "done" /\ c.result.status = "ok"

\* C8 as stated: a successful call of a valid role returns the adapter's payload and
\* a telemetry record whenever the adapter's result carries usage.
C8_TelemetryWheneverUsage ==
    (Succeeded(call) /\ call.params.role \in Roles)
    => /\ IsPayload(call, call.result.mainResult)
       /\ "usage" \in DOMAIN call.response[1] => call.result.telemetryData # <<>>

\* C8 amended: a successful call of a valid role returns the adapter's payload for
\* its service type, and a telemetry record whenever the adapter's result carries
\* usage, a user id is configured and the telemetry recorder does not fail.
C8_PayloadAndTelemetry ==
    (Succeeded(call) /\ call.params.role \in Roles)
    => /\ IsPayload(call, call.result.mainResult)
       /\ ("usage" \in DOMAIN call.response[1]
           /\ env.userId \notin {Undefined, ""}
           /\ ~env.telemetryFault)
          => /\ Len(call.result.telemetryData) = 1
             /\ call.result.telemetryData[1].inputTokens
                    = call.response[1].usage.inputTokens
             /\ call.result.telemetryData[1].outputTokens
                    = call.response[1].usage.outputTokens

\* C8 witness: a successful streaming call that returns the stream handle and a
\* telemetry record
C8_Witness ==
    /\ Succeeded(call)
    /\ call.serviceType = "streamText"
    /\ call.params.role = "research"
    /\ "usage" \in DOMAIN call.response[1]
    /\ call.result.telemetryData # <<>>

\* C9: when the telemetry recorder fails (rejects, or yields null) after a successful
\* provider call, the call has returned successfully with the adapter's payload and
\* telemetryData null, and the provider's return is the last event of the call.
C9_TelemetryFailureIsolated ==
    call.recorder \in {"null", "threw"}
    => /\ Succeeded(call)
       /\ IsPayload(call, call.result.mainResult)
       /\ call.result.telemetryData = <<>>
       /\ call.trace[Len(call.trace)].ev = "return"
       /\ Invocations(call) = call.retries + 1
       /\ \A i \in DOMAIN usageLog : usageLog[i] # call.id

\* C9 witness: the recorder failed after a provider call that succeeded on a retry
C9_Witness ==
    /\ call.recorder = "null"
    /\ env.telemetryFault
    /\ call.retries = 1
    /\ call.pc = "done"

\* C10: a generateTextService call of role main whose main provider call has failed
\* goes on to the fallback role, and to the research role when that fails too.
C10_FallbackAfterMainFails ==
    (/\ call.pc = "done"
     /\ call.serviceType = "generateText"
     /\ call.params.role = "main"
     /\ call.errors # <<>>
     /\ call.thrown # <<>>)
    => /\ Len(call.rolesTried) >= 2
       /\ call.rolesTried[1] = "main"
       /\ call.rolesTried[2] = "fallback"
       /\ call.result.status = "error" => call.rolesTried = <<"main", "fallback", "research">>

----------------------------------------------------------------------------
(* Properties of role resolution *)

C12_UnknownRoleIsFatal ==
    (call.pc # "idle" /\ call.params.role \notin Roles)
    => /\ call.pc = "done"
       /\ call.result.status = "error"
       /\ Invocations(call) = 0

----------------------------------------------------------------------------
(* Properties of the OpenAI adapter under the runner *)

\* the words of a message
Words(message) == {message[i] : i \in DOMAIN message}

\* the backend's error of the k-th attempt, if that attempt failed in the backend
BackendErrorOf(c, k) ==
    {c.backendErrors[i].error : i \in {j \in DOMAIN c.backendErrors :
                                           c.backendErrors[j].attempt = k}}

ReportsNoToolUse(error) ==
    LET lowerCaseMessage == toLowerCase(error.message)
    IN  \E phrase \in AdapterToolUsePhrases : includes(lowerCaseMessage, phrase)

\* C13: a generateObject call that ended because the backend reported that tool use
\* is not supported has failed with a message that names the model id and the role
\* of the call.
C13_ToolUseErrorNamesModelAndRole ==
    (/\ call.pc = "done"
     /\ call.serviceType = "generateObject"
     /\ call.errors # <<>>
     /\ \E error \in BackendErrorOf(call, Len(call.errors)) : ReportsNoToolUse(error))
    => /\ call.result.status = "error"
       /\ call.modelId \in Words(call.result.error[1].message)
       /\ call.params.role \in Words(call.result.error[1].message)

\* C14: an attempt that failed in the backend with status 429 or at least 500 while
\* retries remained is followed by a backoff delay and not by the end of the call.
C14_TransientStatusRetried ==
    \A i \in EventsOf(call, "fail") :
        LET k == call.trace[i].val
        IN  (/\ k <= MAX_RETRIES
             /\ \E error \in BackendErrorOf(call, k) :
                    error.status = 429 \/ error.status >= 500)
            => /\ i < Len(call.trace)
               /\ call.trace[i + 1].ev = "delay"

----------------------------------------------------------------------------
(* Properties of the facades and of error propagation *)

\* C15: a generateObjectService call that every attempt failed retryably has made
\* maxRetries+1 provider invocations, maxRetries being the value the facade fixed
\* for the call.
C15_FacadeMaxRetriesIsTheBound ==
    (/\ call.pc = "done"
     /\ call.serviceType = "generateObject"
     /\ ProviderFailed(call)
     /\ \A k \in DOMAIN call.errors : Transient(ErrorOf(call, k)))
    => Invocations(call) = call.params.maxRetries + 1

\* the configuration and validation messages of the runner and of _resolveApiKey
SetupMessages(c) ==
    {ConfigMissingMessage(Get(c.params, "role"), c.providerName, c.modelId),
     UnsupportedProviderMessage(c.providerName),
     ServiceNotImplementedMessage(c.serviceType, c.providerName),
     ApiKeyMissingMessage(c.providerName),
     MissingPromptMessage,
     <<"Unknown", "provider", LowerWord(c.providerName), "for", "API", "key",
       "resolution.">>}

\* the message extracted from the error the retry executor threw
FlattenedMessage(error) ==
    IF error.dataErrorMessage # <<>> THEN error.dataErrorMessage
    ELSE IF error.errorErrorMessage # <<>> THEN error.errorErrorMessage
    ELSE error.message

MentionsSetup(message) == \E w \in Words(message) : w \in {"setup", "--setup"}

\* C17: a call made while the project has no configuration has failed with no
\* provider invocation and with a message that mentions the setup remedy.
C17_MissingConfigNamesRemedy ==
    (call.pc # "idle" /\ env.models = NoConfiguration)
    => /\ call.pc = "done"
       /\ call.result.status = "error"
       /\ Invocations(call) = 0
       /\ MentionsSetup(call.result.error[1].message)

----------------------------------------------------------------------------
(* Properties of credential resolution *)

\* providers that need no credential: local, self-hosted
LocalProviders == {"ollama"}

----------------------------------------------------------------------------
(* Properties of the request *)

----------------------------------------------------------------------------
(* Properties of calls in flight at the same time *)

\* one step of a call run alone: the failure of an attempt and, when it is retried,
\* the backoff and the next invocation
AloneStep(c, error) ==
    LET caught == ExecutorCatch(c, error)
    IN  IF caught.pc = "delay" THEN ExecutorLoop(caught) ELSE caught

\* the call run alone on the same input, with the same provider failures and the
\* same provider response
RunAlone(e, c) ==
    LET started == StartCall(e, c.id, c.serviceType, c.params)
        n == Len(c.errors)
        F[k \in 0..n] == IF k = 0 THEN started ELSE AloneStep(F[k - 1], c.errors[k])
    IN  IF c.response # <<>>
        THEN RunnerSuccess(e, ExecutorReturn(F[n]), c.response[1])
        ELSE F[n]

\* C20: of the calls in flight at the same time each one makes at most three provider
\* invocations, has the provider, model and credential of its own role, counts its
\* own failed attempts only, and once ended is exactly what it would have been had
\* it run alone; the shared usage log holds at most one record of each call.
C20_ConcurrentCallsIndependent ==
    /\ \A i \in DOMAIN calls :
         calls[i].pc # "idle" =>
            /\ Invocations(calls[i]) <= MAX_RETRIES + 1
            /\ calls[i].id = i
            /\ calls[i].modelId = env.models[calls[i].params.role].modelId
            /\ calls[i].providerName = env.models[calls[i].params.role].provider
            /\ calls[i].callParams # <<>> =>
                 /\ calls[i].callParams[1].modelId = calls[i].modelId
                 /\ calls[i].callParams[1].apiKey = env.secrets["OPENAI_API_KEY"]
            /\ calls[i].pc \in {"calling", "delay"} =>
                 calls[i].retries = Len(calls[i].errors)
            /\ calls[i].pc = "done" => calls[i] = RunAlone(env, calls[i])
    /\ \A m, n \in DOMAIN usageLog : usageLog[m] = usageLog[n] => m = n

\* C20 witness: while one call waits out its second backoff, another call that began
\* with a different role fails for good on its first attempt
C20_Witness ==
    /\ Len(calls) >= 2
    /\ calls[1].pc = "delay"
    /\ calls[1].retries = 2
    /\ calls[2].pc = "done"
    /\ calls[2].result.status = "error"
    /\ Invocations(calls[2]) = 1
    /\ calls[1].params.role # calls[2].params.role

----------------------------------------------------------------------------
(* Properties of the bookkeeping parameters *)

OutputTypes == {"cli", "mcp"}

CommandNames == {"parse-prd", "expand-task"}

\* the parameters that differ from params in the output type only, or in the command
\* name only
Variants(params) ==
    {Spread(params, [outputType |-> o]) : o \in OutputTypes \ {params.outputType}}
    \cup {Spread(params, [commandName |-> n]) : n \in CommandNames \ {params.commandName}}

\* the error the k-th attempt of call c fails with when it is an attempt of call d:
\* the adapter's error for the same backend error, or the same provider error
ReplayError(c, d, k) ==
    LET backend == BackendErrorOf(c, k)
    IN  IF backend = {}
        THEN c.errors[k]
        ELSE [generateOpenAIObjectCatch(d.callParams[1], CHOOSE error \in backend : TRUE)
                  EXCEPT !.origin = k]

\* the run of call c made again with other parameters: the same environment, the
\* same provider failures and the same provider response
Replay(e, c, params) ==
    LET started == StartCall(e, c.id, c.serviceType, params)
        n == Len(c.errors)
        F[k \in 0..n] ==
            IF k = 0
            THEN started
            ELSE LET d == F[k - 1] IN AloneStep(d, ReplayError(c, d, k))
    IN  IF c.response # <<>>
        THEN RunnerSuccess(e, ExecutorReturn(F[n]), c.response[1])
        ELSE F[n]

\* what a run does and returns, the telemetry record left out
ControlFlow(c) ==
    [pc |-> c.pc, trace |-> c.trace, requests |-> c.requests, retries |-> c.retries,
     status |-> c.result.status, mainResult |-> c.result.mainResult,
     error |-> c.result.error]

\* a telemetry record without the name of the command
WithoutCommandName(telemetryData) ==
    [i \in DOMAIN telemetryData |->
        [k \in (DOMAIN telemetryData[i]) \ {"commandName"} |-> telemetryData[i][k]]]

\* C21: a run that has ended and the run made with another outputType (cli, mcp) or
\* another commandName, everything else the same, have made the same sequence of
\* provider invocations, failures and delays with the same requests and return the
\* same mainResult or the same error; their telemetry records differ in the command
\* name at most.
C21_BookkeepingParamsDoNotSteer ==
    call.pc = "done"
    => \A params \in Variants(call.params) :
          LET other == Replay(env, call, params)
          IN  /\ ControlFlow(other) = ControlFlow(call)
              /\ WithoutCommandName(other.result.telemetryData)
                     = WithoutCommandName(call.result.telemetryData)

\* C21 witness: a call made for the MCP server that returned a telemetry record after
\* one retry, which the same call made for the CLI by another command matches
C21_Witness ==
    /\ call.pc = "done"
    /\ call.params.outputType = "mcp"
    /\ call.retries = 1
    /\ call.result.telemetryData # <<>>
    /\ LET other == Replay(env, call, Spread(call.params, [outputType |-> "cli",
                                                          commandName |-> "expand-task"]))
       IN  /\ other.params.outputType = "cli"
           /\ other.result.telemetryData # call.result.telemetryData
           /\ other.result.mainResult = call.result.mainResult
           /\ other.requests = call.requests

----------------------------------------------------------------------------
(* Properties of the telemetry recorder *)

\* the prices of a model, in hundredths of a USD per million tokens; 0 when the
\* provider or the model has no price
PriceOf(providerName, modelId) ==
    LET listed == IF providerName \in DOMAIN MODEL_MAP
                  THEN {m \in MODEL_MAP[providerName] : m.id = modelId} ELSE {}
    IN  IF listed = {}
        THEN [input |-> 0, output |-> 0]
        ELSE LET m == CHOOSE m \in listed : TRUE
             IN  [input |-> m.input, output |-> m.output]

Counted(n) == IF n < 0 THEN 0 ELSE n

\* inputTokens/1e6 * inputCost + outputTokens/1e6 * outputCost, in hundred-millionths
\* of a USD
ExactCost(p) ==
    Counted(p.inputTokens) * PriceOf(p.providerName, p.modelId).input
    + Counted(p.outputTokens) * PriceOf(p.providerName, p.modelId).output

Recorded == probe.fn = "logAiUsage" /\ probe.out[1].data # <<>>

\* C22 as stated: the totalCost of a usage record equals the cost formula, and its
\* totalTokens the sum of the token counts, missing counts counting as 0.
C22_TotalCostIsTheFormula ==
    Recorded
    => /\ probe.out[1].data[1].totalCost = ExactCost(probe.arg)
       /\ probe.out[1].data[1].totalTokens
              = Counted(probe.arg.inputTokens) + Counted(probe.arg.outputTokens)

\* C22 amended: the totalCost of a usage record is the cost formula rounded to six
\* decimal places of a USD (20 USD for prices 5 and 15 with a million input and a
\* million output tokens), and its totalTokens is the sum of the token counts,
\* missing counts counting as 0.
C22_TotalCostRounded ==
    Recorded
    => LET record == probe.out[1].data[1]
           p == probe.arg
       IN  /\ record.totalCost % 100 = 0
           /\ 2 * (record.totalCost - ExactCost(p)) <= 100
           /\ 2 * (ExactCost(p) - record.totalCost) <= 100
           /\ record.totalTokens = Counted(p.inputTokens) + Counted(p.outputTokens)
           /\ record.inputTokens = Counted(p.inputTokens)
           /\ record.outputTokens = Counted(p.outputTokens)
           /\ (/\ p.providerName = "openai" /\ p.modelId = "gpt-4o"
               /\ p.inputTokens = MillionTokens /\ p.outputTokens = MillionTokens)
              => record.totalCost = 20 * 100 * MillionTokens

\* C22 witness: a record for a model priced in cents whose cost, 0.45 millionths of a
\* USD, is recorded as 0, the output token count missing
C22_Witness ==
    /\ Recorded
    /\ probe.arg.modelId = "gpt-4o-mini"
    /\ probe.arg.outputTokens = NoCount
    /\ ExactCost(probe.arg) = 45
    /\ probe.out[1].data[1].totalCost = 0
    /\ probe.out[1].data[1].totalTokens = 3

Unlisted(p) ==
    \/ p.providerName \notin DOMAIN MODEL_MAP
    \/ \A m \in MODEL_MAP[p.providerName] : m.id # p.modelId

\* C23: logAiUsage never rejects; when its body fails it yields null, and otherwise
\* one usage record, whose totalCost is 0 (in USD) when the provider or the model is
\* not in the pricing table.
C23_RecorderNeverThrows ==
    probe.fn = "logAiUsage"
    => /\ ~probe.out[1].threw
       /\ IF env.telemetryFault
          THEN probe.out[1].data = <<>>
          ELSE /\ Len(probe.out[1].data) = 1
               /\ probe.out[1].data[1].modelUsed = probe.arg.modelId
               /\ Unlisted(probe.arg) =>
                    /\ probe.out[1].data[1].totalCost = 0
                    /\ probe.out[1].data[1].currency = "USD"
                    /\ probe.out[1].data[1].totalTokens
                           = Counted(probe.arg.inputTokens) + Counted(probe.arg.outputTokens)

\* C23 witness: a record of two million tokens for a provider that is not in the
\* pricing table
C23_Witness ==
    /\ Recorded
    /\ probe.arg.providerName \notin DOMAIN MODEL_MAP
    /\ probe.out[1].data[1].totalTokens = 2 * MillionTokens
    /\ probe.out[1].data[1].totalCost = 0

\* C23 second witness: the body of logAiUsage failed and the caller was handed null
C23_NullWitness ==
    /\ probe.fn = "logAiUsage"
    /\ env.telemetryFault
    /\ probe.out[1] = [threw |-> FALSE, data |-> <<>>]

----------------------------------------------------------------------------
(* Properties of the OpenAI adapter *)

\* a request with an API key, a model id and a non-empty messages array
ValidRequest(params) ==
    /\ params.apiKey \notin {Undefined, ""}
    /\ params.modelId \notin {Undefined, ""}
    /\ params.messages # <<>>

\* C24: generateOpenAIText and streamOpenAIText, given a request with an API key, a
\* model id and a non-empty messages array, send one request to the backend; and
\* generateOpenAIText resolves to {text, usage} when the backend returns a non-empty
\* text.
C24_TextOperationsReachBackend ==
    (probe.fn \in {"generateOpenAIText", "streamOpenAIText"}
     /\ ValidRequest(probe.arg.params))
    => /\ Len(probe.out[1].sent) = 1
       /\ (/\ probe.fn = "generateOpenAIText"
           /\ ~probe.arg.backend.rejects
           /\ probe.arg.backend.result.text = " Hello ")
          => /\ ~probe.out[1].threw
             /\ probe.out[1].value[1].text = "Hello"
             /\ "usage" \in DOMAIN probe.out[1].value[1]

\* the first tool call of the backend's response, if the response has one
FirstToolCall(backend) ==
    IF backend.rejects \/ backend.response.choices = <<>>
    THEN <<>>
    ELSE SubSeq(backend.response.choices[1].message.tool_calls, 1,
                IF backend.response.choices[1].message.tool_calls = <<>> THEN 0 ELSE 1)

\* C25: every request generateOpenAIObject sends offers one function tool named
\* objectName and forces its use; the operation resolves to an object only if the
\* first tool call of the response is named exactly objectName and carries arguments,
\* the object being the parsed arguments; with no tool call, another tool name or
\* empty arguments it rejects.
C25_ObjectOnlyFromNamedToolCall ==
    probe.fn = "generateOpenAIObject"
    => LET params == probe.arg.params
           out == probe.out[1]
           toolCall == FirstToolCall(probe.arg.backend)
       IN  /\ Len(out.sent) <= 1
           /\ \A i \in DOMAIN out.sent :
                /\ Len(out.sent[i].tools) = 1
                /\ out.sent[i].tools[1].type = "function"
                /\ out.sent[i].tools[1].function.name = params.objectName
                /\ out.sent[i].tool_choice
                       = [type |-> "function", function |-> [name |-> params.objectName]]
           /\ ~out.threw =>
                /\ Len(out.sent) = 1
                /\ Len(toolCall) = 1
                /\ toolCall[1].function.name = params.objectName
                /\ toolCall[1].function.arguments # ""
                /\ <<out.value[1].object>> = JSONParse(toolCall[1].function.arguments)
           /\ (\/ toolCall = <<>>
               \/ toolCall[1].function.name # params.objectName
               \/ toolCall[1].function.arguments = "")
              => /\ out.threw
                 /\ out.value = <<>>
                 /\ Len(out.error) = 1

\* C25 witness: the response holds a tool call of another name before the one named
\* objectName, and the operation has rejected after sending its request
C25_Witness ==
    /\ probe.fn = "generateOpenAIObject"
    /\ Len(probe.out[1].sent) = 1
    /\ ~probe.arg.backend.rejects
    /\ probe.arg.backend.response.choices # <<>>
    /\ Len(probe.arg.backend.response.choices[1].message.tool_calls) = 2
    /\ probe.arg.backend.response.choices[1].message.tool_calls[1].function.name
           = "other_tool"
    /\ probe.out[1].threw

\* C25 second witness: the operation resolved to the object parsed from the arguments
\* of the tool call named objectName
C25_ObjectWitness ==
    /\ probe.fn = "generateOpenAIObject"
    /\ ~probe.out[1].threw
    /\ probe.out[1].value[1].object = [tasks |-> <<>>]
    /\ probe.out[1].value[1].usage = [inputTokens |-> 10, outputTokens |-> 20]

\* the keywords many backends reject: the dialect marker and the exclusive bounds
UnsupportedKeywords == {"$schema", "exclusiveMinimum", "exclusiveMaximum"}

RECURSIVE KeysOf(_)
\* the keys of a JSON value at any depth, inside nested objects and inside arrays
KeysOf(json) ==
    CASE json.kind = "object" ->
           (DOMAIN json.fields)
           \cup UNION {KeysOf(json.fields[k]) : k \in DOMAIN json.fields}
      [] json.kind = "array" -> UNION {KeysOf(json.items[i]) : i \in DOMAIN json.items}
      [] OTHER -> {}

\* C26: the schema of every request generateOpenAIObject sends to the backend holds
\* no $schema, exclusiveMinimum or exclusiveMaximum key at any depth, whatever schema
\* the caller passed in.
C26_SentSchemaIsSanitized ==
    probe.fn = "generateOpenAIObject"
    => \A i \in DOMAIN probe.out[1].sent :
          KeysOf(probe.out[1].sent[i].tools[1].function.parameters)
              \cap UnsupportedKeywords = {}

----------------------------------------------------------------------------
(* Properties of the model configuration operations *)

ConfigurationOps == {"getModelConfiguration", "getAvailableModelsList", "setModel"}

\* C27: getModelConfiguration, getAvailableModelsList and setModel, called while the
\* configuration file is absent, return the failure CONFIG_MISSING with a message that
\* tells to run the models setup, having read no setting and written no
\* configuration: the file is still absent.
C27_MissingConfigFileIsReported ==
    (probe.fn \in ConfigurationOps /\ probe.arg.before.config = <<>>)
    => /\ ~probe.out[1].success
       /\ probe.out[1].code = "CONFIG_MISSING"
       /\ probe.out[1].message = ConfigFileMissingMessage
       /\ MentionsSetup(probe.out[1].message)
       /\ probe.out[1].data = <<>>
       /\ project = probe.arg.before
       /\ project.config = <<>>
       /\ project.writes = 0

\* C27 witness: setModel for a supported model and a valid role, called twice in a
\* project without configuration file
C27_Witness ==
    /\ probe.fn = "setModel"
    /\ callCount = 2
    /\ probe.arg.role = "main"
    /\ probe.arg.modelId = "gpt-4o"
    /\ project = NoProject
    /\ probe.out[1].code = "CONFIG_MISSING"

----------------------------------------------------------------------------
(* Properties of the order of the runner's checks *)

ProviderOf(e, c) == e.models[RoleRead(c)].provider

ProviderUnregistered(e, c) == LowerWord(ProviderOf(e, c)) \notin {"openai"}

ServiceTypeMissing(e, c) == c.serviceType \notin ServiceTypes

\* the steps of a run in their order, each with what makes it fail and the message it
\* fails with
SetupSteps(e, c) ==
    <<[fails |-> RoleUnconfigured(e, c),
       message |-> <<"Critical", "configuration", "missing", "for", "role",
                     c.params.role, "Provider:", ProviderOf(e, c), "Model:",
                     e.models[RoleRead(c)].modelId>>],
      [fails |-> ProviderUnregistered(e, c),
       message |-> <<"Unsupported", "provider", "configured:", ProviderOf(e, c)>>],
      [fails |-> ServiceTypeMissing(e, c),
       message |-> <<"Service", c.serviceType, "not", "implemented", "for", "provider",
                     ProviderOf(e, c)>>],
      [fails |-> "OPENAI_API_KEY" \notin DOMAIN e.secrets,
       message |-> <<"API", "key", "missing", "for", "provider", ProviderOf(e, c)>>],
      [fails |-> PromptMissing(c),
       message |-> <<"User", "prompt", "content", "is", "missing.">>]>>

\* C28: a run of which one or more steps fail (role configured, provider registered,
\* service type implemented, credential present, prompt present) has ended, with no
\* provider invocation, in the error of the earliest step that fails.
C28_EarliestFailureReported ==
    call.pc # "idle"
    => LET steps == SetupSteps(env, call)
           failing == {i \in DOMAIN steps : steps[i].fails}
       IN  failing # {} =>
              LET first == CHOOSE i \in failing : \A j \in failing : i <= j
              IN  /\ call.pc = "done"
                  /\ call.trace = <<>>
                  /\ call.result.status = "error"
                  /\ call.result.error[1].message = steps[first].message

\* C28 witness: a call without API key and without prompt has failed with the API-key
\* error
C28_Witness ==
    /\ call.pc = "done"
    /\ "OPENAI_API_KEY" \notin DOMAIN env.secrets
    /\ PromptMissing(call)
    /\ ~RoleUnconfigured(env, call)
    /\ ~ProviderUnregistered(env, call)
    /\ call.result.error[1].message
           = <<"API", "key", "missing", "for", "provider", call.providerName>>

\* C28 second witness: a call whose provider is not registered and whose API key is
\* absent has failed with the unsupported-provider error
C28_ProviderWitness ==
    /\ call.pc = "done"
    /\ ProviderOf(env, call) = "ollama"
    /\ "OPENAI_API_KEY" \notin DOMAIN env.secrets
    /\ call.result.error[1].message = <<"Unsupported", "provider", "configured:", "ollama">>

----------------------------------------------------------------------------
(* Properties of error-message extraction *)

\* the message of the body of the response, when the body is JSON that holds one
BodyMessage(error) ==
    IF "responseBody" \in DOMAIN error /\ error.responseBody # <<>>
       /\ error.responseBody[1].json
    THEN error.responseBody[1].errorMessage
    ELSE <<>>

\* the messages an error holds, in the order of preference
MessagesIn(error) ==
    <<IF "dataErrorMessage" \in DOMAIN error THEN error.dataErrorMessage ELSE <<>>,
      IF "errorErrorMessage" \in DOMAIN error THEN error.errorErrorMessage ELSE <<>>,
      BodyMessage(error),
      IF "message" \in DOMAIN error THEN error.message ELSE <<>>>>

\* C29: _extractErrorMessage yields one message for every error: the first one present
\* among error.data.error.message, error.error.message, error.message of a JSON
\* responseBody and the top-level message; without any of them the error itself when
\* it is a string, and else the fixed unknown-error text. A responseBody that is not
\* JSON is passed over.
C29_FirstShapeInOrder ==
    probe.fn = "_extractErrorMessage"
    => LET error == probe.arg
           found == MessagesIn(error)
           present == {i \in DOMAIN found : found[i] # <<>>}
       IN  /\ Len(probe.out) = 1
           /\ IF present # {}
              THEN /\ probe.out[1] = found[CHOOSE i \in present : \A j \in present : i <= j]
                   /\ probe.out[1] # <<>>
              ELSE IF "text" \in DOMAIN error
              THEN probe.out[1] = error.text
              ELSE probe.out[1] = <<"An", "unknown", "AI", "service", "error", "occurred.">>

\* C29 witness: an error with a responseBody that is not JSON and a top-level message
\* yields the top-level message
C29_Witness ==
    /\ probe.fn = "_extractErrorMessage"
    /\ "responseBody" \in DOMAIN probe.arg
    /\ probe.arg.responseBody # <<>>
    /\ ~probe.arg.responseBody[1].json
    /\ probe.arg.dataErrorMessage = <<>>
    /\ probe.arg.errorErrorMessage = <<>>
    /\ probe.arg.message # <<>>
    /\ probe.out[1] = probe.arg.message

----------------------------------------------------------------------------
(* Properties of schema cleaning *)

RECURSIVE NodesOf(_, _)
\* every value inside a JSON value with its place: the keys and the array positions
\* that lead to it, its kind, its keys or its length, and its primitive value
NodesOf(json, path) ==
    {[path |-> path, kind |-> json.kind, value |-> json.value, size |-> Len(json.items)]}
    \cup UNION {NodesOf(json.fields[key], Append(path, key)) : key \in DOMAIN json.fields}
    \cup UNION {NodesOf(json.items[i], Append(path, ToString(i))) : i \in DOMAIN json.items}

\* C30: cleanJsonSchema returns a value that holds no $schema, exclusiveMinimum or
\* exclusiveMaximum key at any depth, inside nested objects and inside arrays, and
\* that holds every other key and value of the argument in its place; the argument
\* is not changed by the call, and cleaning the returned value again returns it
\* unchanged.
C30_CleanedSchema ==
    probe.fn = "cleanJsonSchema"
    => LET returned == probe.out[1].returned
       IN  /\ KeysOf(returned) \cap UnsupportedKeywords = {}
           /\ NodesOf(returned, <<>>)
              = {node \in NodesOf(probe.arg, <<>>) :
                   \A i \in DOMAIN node.path : node.path[i] \notin UnsupportedKeywords}
           /\ probe.out[1].schema = probe.arg
           /\ cleanJsonSchema(returned) = returned

\* C30 witness: a schema with an exclusive bound inside an array inside an object was
\* cleaned: the bound is gone and the type next to it is kept
C30_Witness ==
    /\ probe.fn = "cleanJsonSchema"
    /\ probe.arg.kind = "object"
    /\ "anyOf" \in DOMAIN probe.arg.fields
    /\ "exclusiveMaximum" \in DOMAIN probe.arg.fields.anyOf.items[1].fields
    /\ "type" \in DOMAIN probe.arg.fields.anyOf.items[1].fields
    /\ DOMAIN probe.out[1].returned.fields.anyOf.items[1].fields = {"type"}

----------------------------------------------------------------------------
(* Properties of PRD parsing *)

\* the tasks the AI returned in the call recorded in probe
ReturnedTasks ==
    LET mainResult == probe.arg.service[1].response.mainResult[1]
    IN  IF "tasks" \in DOMAIN mainResult
        THEN mainResult.tasks.items
        ELSE mainResult.object.tasks.items

\* the tasks of the file before the call that an appending call keeps
ExistingTasks ==
    IF probe.arg.options.append /\ probe.arg.before # <<>> /\ probe.arg.before[1].valid
    THEN probe.arg.before[1].tasks
    ELSE <<>>

\* 1, or the greatest existing id + 1 in append mode with existing tasks
ExpectedNextId ==
    IF ExistingTasks = <<>>
    THEN 1
    ELSE 1 + CHOOSE id \in {ExistingTasks[i].id : i \in DOMAIN ExistingTasks} :
                 \A i \in DOMAIN ExistingTasks : ExistingTasks[i].id <= id

\* the tasks of the written file that the call generated
NewTasks == SubSeq(tasksFile[1].tasks, Len(ExistingTasks) + 1, Len(tasksFile[1].tasks))

ParseSucceeded == probe.fn = "parsePRD" /\ probe.out[1].outcome = "returned"

\* C31: after a successful parsePRD the new tasks carry the ids nextId, nextId+1, ...
\* in the order the AI returned them, whatever ids the AI supplied, nextId being 1 or,
\* in append mode with existing tasks, the greatest existing id + 1; all ids of the
\* written list are pairwise distinct; every new task is pending and has no subtasks.
C31_NewTasksNumberedInOrder ==
    ParseSucceeded
    => LET written == tasksFile[1].tasks
       IN  /\ tasksFile = probe.out[1].file
           /\ written = ExistingTasks \o NewTasks
           /\ Len(NewTasks) = Len(ReturnedTasks)
           /\ \A i \in DOMAIN NewTasks :
                 /\ NewTasks[i].id = ExpectedNextId + i - 1
                 /\ NewTasks[i].title = ReturnedTasks[i].title
                 /\ NewTasks[i].status = "pending"
                 /\ NewTasks[i].subtasks = <<>>
           /\ \A i, j \in DOMAIN written : written[i].id = written[j].id => i = j

\* C31 witness: appending to tasks 1 and 3, the AI returned two tasks that both carry
\* the id 1, the first one done and with a subtask: they were written as 4 and 5
C31_Witness ==
    /\ ParseSucceeded
    /\ probe.arg.options.append
    /\ ExpectedNextId = 4
    /\ Len(ReturnedTasks) = 2
    /\ ReturnedTasks[1].id = 1
    /\ ReturnedTasks[2].id = 1
    /\ "status" \in DOMAIN ReturnedTasks[1]
    /\ ReturnedTasks[1].status = "done"
    /\ NewTasks[1].id = 4
    /\ NewTasks[2].id = 5

\* C32: in the list parsePRD wrote, every dependency of a new task is the id of a task
\* of the written list and is strictly lower than the id of the task itself, whatever
\* ids and dependencies the AI returned; so no new task depends on itself or on a
\* later task.
C32_DependenciesPointBack ==
    ParseSucceeded
    => \A i \in DOMAIN NewTasks :
          \A j \in DOMAIN NewTasks[i].dependencies :
             LET depId == NewTasks[i].dependencies[j]
             IN  /\ depId < NewTasks[i].id
                 /\ \E k \in DOMAIN tasksFile[1].tasks : tasksFile[1].tasks[k].id = depId

\* C32 witness: the first returned task named itself and the second one, a forward
\* reference, and the second named the first: only the second dependency was kept
C32_Witness ==
    /\ ParseSucceeded
    /\ ~probe.arg.options.append
    /\ Len(ReturnedTasks) = 2
    /\ ReturnedTasks[1].id = 1
    /\ ReturnedTasks[1].dependencies = JArray(<<4, 1>>)
    /\ ReturnedTasks[2].id = 4
    /\ ReturnedTasks[2].dependencies = JArray(<<1>>)
    /\ NewTasks[1].dependencies = <<>>
    /\ NewTasks[2].dependencies = <<1>>

\* C33: in append mode, a dependency of a returned task on a task that was in the
\* tasks file before the call (an id lower than nextId that exists there) is a
\* dependency of the written new task, with the same id.
C33_DependenciesOnExistingTasksKept ==
    (ParseSucceeded /\ probe.arg.options.append)
    => \A i \in DOMAIN ReturnedTasks :
          ReturnedTasks[i].dependencies.kind = "array"
          => \A j \in DOMAIN ReturnedTasks[i].dependencies.items :
                LET depId == ReturnedTasks[i].dependencies.items[j]
                IN  (/\ depId < ExpectedNextId
                     /\ \E k \in DOMAIN ExistingTasks : ExistingTasks[k].id = depId)
                    => \E d \in DOMAIN NewTasks[i].dependencies :
                          NewTasks[i].dependencies[d] = depId

\* the tasks file exists and the call neither forces nor appends
OverwriteRefused ==
    /\ probe.arg.before # <<>>
    /\ ~probe.arg.options.force
    /\ ~probe.arg.options.append

PrdUnusable == probe.arg.prd = <<>> \/ probe.arg.prd[1] = ""

ServiceCalled == probe.out[1].requests # <<>>

ServiceFailed == ServiceCalled /\ probe.arg.service[1].threw

\* the AI service returned an object with a tasks array, in mainResult or in
\* mainResult.object
TasksArrayReturned ==
    /\ ServiceCalled
    /\ ~probe.arg.service[1].threw
    /\ probe.arg.service[1].response.mainResult # <<>>
    /\ LET mainResult == probe.arg.service[1].response.mainResult[1]
       IN  \/ "tasks" \in DOMAIN mainResult /\ mainResult.tasks.kind = "array"
           \/ /\ "tasks" \notin DOMAIN mainResult
              /\ "object" \in DOMAIN mainResult
              /\ "tasks" \in DOMAIN mainResult.object
              /\ mainResult.object.tasks.kind = "array"

C34_StructureWitness ==
    /\ probe.fn = "parsePRD"
    /\ probe.arg.options.force
    /\ probe.arg.before # <<>>
    /\ ServiceCalled
    /\ ~ServiceFailed
    /\ ~TasksArrayReturned
    /\ probe.out[1].message = UnexpectedStructureMessage
    /\ tasksFile = probe.arg.before

----------------------------------------------------------------------------
(* Properties of setModel *)

SetModelReturned == probe.fn = "setModel" /\ "success" \in DOMAIN probe.out[1]

\* C35: a successful setModel(role, modelId) changes only the provider and the modelId
\* of the entry of that role: the other parameters of the entry (maxTokens,
\* temperature, baseUrl), the entry of every other role and the global settings are
\* after the call what they were before it, at every call of a sequence.
C35_OnlyProviderAndModelIdChange ==
    (SetModelReturned /\ probe.out[1].success)
    => LET before == probe.arg.before.config[1]
           after == project.config[1]
           role == probe.arg.role
           old == IF role \in DOMAIN before.models THEN before.models[role]
                  ELSE EmptyObject
       IN  /\ after.global = before.global
           /\ DOMAIN after.models = DOMAIN before.models \cup {role}
           /\ \A r \in DOMAIN before.models \ {role} : after.models[r] = before.models[r]
           /\ DOMAIN after.models[role] = DOMAIN old \cup {"provider", "modelId"}
           /\ \A key \in DOMAIN old \ {"provider", "modelId"} :
                 after.models[role][key] = old[key]
           /\ after.models[role].modelId = probe.arg.modelId
           /\ after.models[role].provider = probe.out[1].data[1].provider

\* C35 witness: the second of two successful calls set the main role, whose entry
\* holds a base URL, to gpt-4o-mini, after the first had set the fallback role
C35_Witness ==
    /\ SetModelReturned
    /\ probe.out[1].success
    /\ callCount = 2
    /\ probe.arg.role = "main"
    /\ probe.arg.modelId = "gpt-4o-mini"
    /\ probe.arg.before.config[1].models.fallback.modelId = "gpt-4o"
    /\ project.config[1].models.main.modelId = "gpt-4o-mini"
    /\ "baseUrl" \in DOMAIN project.config[1].models.main
    /\ project.config[1].models.main.baseUrl = "http://localhost:11434/api"
    /\ project.config[1].models.main.maxTokens = 100000
    /\ project.writes = 2

SetModelFailureCodes ==
    {"CONFIG_MISSING", "INVALID_ROLE", "INVALID_MODEL_ID", "MODEL_NOT_FOUND_NO_HINT",
     "PROVIDER_UNDETERMINED", "SET_MODEL_ERROR", "WRITE_ERROR"}

\* C36: setModel never throws: every call returns a result; and when the result is a
\* failure other than WRITE_ERROR, nothing was written and the stored configuration is
\* what it was before the call.
C36_FailedSetModelWritesNothing ==
    probe.fn = "setModel"
    => /\ "success" \in DOMAIN probe.out[1]
       /\ ~probe.out[1].success
          => /\ probe.out[1].code \in SetModelFailureCodes
             /\ probe.out[1].code # "WRITE_ERROR"
                => /\ project.writes = probe.arg.before.writes
                   /\ project.config = probe.arg.before.config

\* C36 witness: after a successful call, a call for a model that is not in the list,
\* made without a provider hint, returned SET_MODEL_ERROR and the configuration the
\* first call wrote is in place
C36_Witness ==
    /\ probe.fn = "setModel"
    /\ callCount = 2
    /\ probe.arg.modelId = "llama3"
    /\ probe.arg.options.providerHint = Undefined
    /\ probe.arg.role = "main"
    /\ "success" \in DOMAIN probe.out[1]
    /\ probe.out[1].code = "SET_MODEL_ERROR"
    /\ project.writes = 1
    /\ project.config = probe.arg.before.config
    /\ project.config[1].models.research.modelId = "gpt-4o-mini"

----------------------------------------------------------------------------
(* Properties of modelsDirect *)

DirectCallsInFlight == {i \in Slots : calls[i].pc = "awaiting"}

\* C37: every modelsDirect call that enabled silent mode has disabled it when it
\* returns, whether the core function returned a success, returned a failure or
\* threw, the error then being returned as DIRECT_FUNCTION_ERROR; so whenever no
\* call is in flight, after any sequence of calls, silent mode is not enabled.
C37_SilentModeRestored ==
    /\ DirectCallsInFlight = {} => ~silentMode
    /\ \A i \in Slots :
          calls[i].pc = "returned"
          => /\ calls[i].result # <<>>
             /\ calls[i].settled[1].threw
                => /\ ~calls[i].result[1].success
                   /\ calls[i].result[1].code = "DIRECT_FUNCTION_ERROR"
             /\ ~calls[i].settled[1].threw
                => calls[i].result[1] = calls[i].settled[1].result[1]

\* C37 witness: two calls have returned, the one whose core function threw with
\* DIRECT_FUNCTION_ERROR and the other with a success, and silent mode is off
C37_Witness ==
    /\ calls[1].pc = "returned"
    /\ calls[2].pc = "returned"
    /\ calls[1].settled[1].threw
    /\ calls[1].result[1].code = "DIRECT_FUNCTION_ERROR"
    /\ calls[2].result[1].success
    /\ ~silentMode

----------------------------------------------------------------------------
(* Termination of a service call *)

\* the call with this id is waiting for its provider or for a backoff delay
InProgress(id) == call.id = id /\ call.pc \notin {"idle", "done"}

\* the call with this id has ended, with a result or with an error
Ended(id) == call.id = id /\ call.pc = "done" /\ call.result.status \in {"ok", "error"}

\* C38: every service call ends, with a result or with an error, when each provider
\* invocation and each backoff delay ends: the retry loop does not run forever, even
\* against a provider that fails with a retryable error at every invocation.
C38_EveryCallTerminates == \A id \in 1..MaxCalls : InProgress(id) ~> Ended(id)

\* C38 witness: a call ended in an error after MAX_RETRIES + 1 invocations that all
\* failed with a retryable error
C38_Witness ==
    /\ call.pc = "done"
    /\ call.result.status = "error"
    /\ Invocations(call) = MAX_RETRIES + 1
    /\ Len(call.errors) = MAX_RETRIES + 1
    /\ \A i \in DOMAIN call.errors : isRetryableError(call.errors[i])

----------------------------------------------------------------------------
(* Properties of the provider request *)

\* C39: the request handed to the provider function carries the credential and the
\* model id resolved for the role of the call, the maxTokens and temperature of that
\* role, the base URL of the role and the messages built from systemPrompt and
\* prompt, whatever other parameters the caller supplied.
C39_RequestCarriesResolvedValues ==
    (probe.fn = "RunnerSetup" /\ probe.out[1].ok)
    => LET request == probe.out[1].callParams[1]
           params == probe.arg.params
           role == params.role
       IN  /\ request.apiKey
              = _resolveApiKey(env, LowerWord(getProvider(env, role))).apiKey
           /\ request.modelId = getModelId(env, role)
           /\ request.maxTokens = getParametersForRole(env, role).maxTokens
           /\ request.temperature = getParametersForRole(env, role).temperature
           /\ request.baseUrl = getBaseUrlForRole(env, role)
           /\ request.messages
              = BuildMessages(Get(params, "systemPrompt"), params.prompt)

====
